---- MODULE Spec2Model ----
(***************************************************************************)
(* Model of the synchronisation subsystem of monday-mermaid:                *)
(* lib/cache-manager.ts (CacheManager), the store adapter lib/database.ts   *)
(* with the constraints of sql/schema.sql, and the remote client            *)
(* lib/monday-api.ts.  Every await of a handler is one step of the caller   *)
(* that runs it; the code between two awaits is atomic (one JavaScript      *)
(* thread).  Every store call and every remote call may throw.              *)
(***************************************************************************)
EXTENDS Integers, Sequences, FiniteSets, TLC

\* ---------------------------------------------------------------- bounds
\* Invocations of the entry points in one behaviour.
MaxCalls == 2
\* Last hour the clock reaches, and the hours one Tick adds.
MaxNow == 72
TickStep == 24

\* Concurrent callers of the one CacheManager instance.
Procs == {1, 2}

\* Boards of one workspace health analysis.
MaxBoards == 2

\* Boards a store content read by getOrganizationalStructure holds.
MaxStoredBoards == 1

\* ------------------------------------------------------ program constants
\* config.health
inactiveDaysThreshold == 30
underutilizedItemsThreshold == 5
minBoardAgeForAnalysis == 7
\* 1000 * 60 * 60 * 24 milliseconds, the clock counting hours.
HoursPerDay == 24

defaultTtlHours == 24
veryOldHours == 48
\* config.priorityWorkspaces.displaySettings.maxBoardsPerWorkspace
maxBoardsPerWorkspace == 12
\* config.priorityWorkspaces.boardFilters.includeArchived
boardFiltersIncludeArchived == FALSE
\* cleanup(): the Sync Runs it keeps (LIMIT 100).
keepSyncRuns == 100
\* Number.POSITIVE_INFINITY of getCacheStatus, above every reachable age.
Infinity == 1000000

NULL == "null"

getPriorityWorkspaceNames == {"CRM", "Production 2025", "Lab", "VRM - Purchasing"}

\* Names a caller passes to syncSpecificPriorityWorkspace.
ScopeInputs == {"CRM", "Lab", "Production 2025", "Other"}

\* Ids a caller passes to syncSpecificWorkspace.
WorkspaceIdInputs == {"w1", "w2"}

\* ------------------------------------------------------------------ state
VARIABLES
  issyncing,            \* CacheManager.issyncing
  procs,                \* per caller: position in its handler and its locals
  workspaces,           \* table workspaces: the stored ids
  boards,               \* table boards: id -> row
  columns,              \* table columns: id -> board_id (id is the primary key)
  board_relationships,  \* table board_relationships: the rows, in insertion order
  users,                \* table users: the stored ids
  sync_metadata,        \* table sync_metadata: the Sync Runs, in insertion order
  now,                  \* the clock, in hours
  calls,                \* invocations started so far
  removed,              \* remote boards whose columns were all removed remotely
  hboards,              \* the boards handed to the health analyzer
  report,               \* what the health analyzer returned
  given,                \* what a call of the API client or a store query finds
  returned              \* what that call returned

\* ------------------------------------------------------------ remote data
\* What the remote service holds.  "CRM" and "Lab" are priority workspaces,
\* "Production 2025" and "VRM - Purchasing" do not exist remotely.
RemoteWorkspaces ==
  << [id |-> "w1", name |-> "CRM"],
     [id |-> "w2", name |-> "Lab"],
     [id |-> "wx", name |-> "Other"] >>

\* settings_str blobs of the remote columns.
RemoteColumns ==
  [ c1 |-> [id |-> "c1", type |-> "connect_boards", settings_str |-> "{boardIds:[b2,null,bx,b2]}"],
    c2 |-> [id |-> "c2", type |-> "mirror",         settings_str |-> "not json"],
    c3 |-> [id |-> "c3", type |-> "mirror",         settings_str |-> "{boardId:b2}"],
    c4 |-> [id |-> "c4", type |-> "mirror",         settings_str |-> "{boardId:b3}"],
    c5 |-> [id |-> "c5", type |-> "text",           settings_str |-> "{}"] ]

\* b3 is archived and carries a column id that b1 uses too; bx lives in
\* the non-priority workspace.
InitialRemoteBoards ==
  << [id |-> "b1", workspace |-> "w1", state |-> "active",   columns |-> <<"c2", "c1">>],
     [id |-> "b2", workspace |-> "w1", state |-> "active",   columns |-> <<"c3", "c4">>],
     [id |-> "b3", workspace |-> "w1", state |-> "archived", columns |-> <<"c1">>],
     [id |-> "bx", workspace |-> "wx", state |-> "active",   columns |-> <<"c5">>] >>

\* The boards as the remote service returns them now.
RemoteBoards ==
  [x \in DOMAIN InitialRemoteBoards |->
     IF InitialRemoteBoards[x].id \in removed
     THEN [InitialRemoteBoards[x] EXCEPT !.columns = << >>]
     ELSE InitialRemoteBoards[x]]

\* Boards whose columns a user of the remote service may remove.
Removable == {"b2"}

RemoteUsers == <<"u1">>

\* -------------------------------------------------------------- sequences
Range(s) == {s[x] : x \in DOMAIN s}

RECURSIVE Flatten(_)
Flatten(ss) == IF ss = << >> THEN << >> ELSE Head(ss) \o Flatten(Tail(ss))

Max(S) == CHOOSE x \in S : \A y \in S : y <= x

\* ----------------------------------------------------------- remote client
\* MondayAPI.getWorkspaces: every workspace of the remote.
getWorkspaces == RemoteWorkspaces

\* MondayAPI.getPriorityWorkspaces: those whose name is a priority name.
getPriorityWorkspaces ==
  LET IsPriority(w) == w.name \in getPriorityWorkspaceNames
  IN  SelectSeq(getWorkspaces, IsPriority)

\* MondayAPI.getBoardsInWorkspace: boards(workspace_ids, state: active[,
\* archived], limit: maxBoards); every caller passes maxBoardsPerWorkspace.
getBoardsInWorkspace(workspaceId, includeArchived) ==
  LET Wanted(b) == /\ b.workspace = workspaceId
                   /\ \/ b.state = "active"
                      \/ includeArchived /\ b.state = "archived"
      found == SelectSeq(RemoteBoards, Wanted)
  IN  IF Len(found) > maxBoardsPerWorkspace
      THEN SubSeq(found, 1, maxBoardsPerWorkspace)
      ELSE found

getUsers == RemoteUsers

RemoteBoard(boardId) == CHOOSE b \in Range(RemoteBoards) : b.id = boardId

\* JSON.parse of a settings blob: the fields the discovery reads, or a
\* parse error (ok = FALSE).
JSONParse(settings_str) ==
  CASE settings_str = "{boardIds:[b2,null,bx,b2]}" ->
         [ok |-> TRUE, boardIds |-> <<"b2", NULL, "bx", "b2">>, boardId |-> NULL]
    [] settings_str = "{boardId:b2}" -> [ok |-> TRUE, boardIds |-> << >>, boardId |-> "b2"]
    [] settings_str = "{boardId:b3}" -> [ok |-> TRUE, boardIds |-> << >>, boardId |-> "b3"]
    [] settings_str = "{}" -> [ok |-> TRUE, boardIds |-> << >>, boardId |-> NULL]
    [] OTHER -> [ok |-> FALSE, boardIds |-> << >>, boardId |-> NULL]

\* The connections one column yields in MondayAPI.getBoardConnections; an
\* unparseable blob is skipped.
ColumnConnections(column) ==
  LET settings == JSONParse(column.settings_str)
      Conn(t, ty) == [targetBoard |-> t, type |-> ty, columnId |-> column.id]
  IN  IF column.type = "connect_boards" /\ column.settings_str # NULL
      THEN IF settings.ok
           THEN [x \in DOMAIN settings.boardIds |-> Conn(settings.boardIds[x], "connect")]
           ELSE << >>
      ELSE IF column.type = "mirror" /\ column.settings_str # NULL
      THEN IF settings.ok /\ settings.boardId # NULL
           THEN << Conn(settings.boardId, "mirror") >>
           ELSE << >>
      ELSE << >>

\* MondayAPI.getBoardConnections: the connections of all columns, in order.
getBoardConnections(boardId) ==
  LET cols == RemoteBoard(boardId).columns
  IN  Flatten([x \in DOMAIN cols |-> ColumnConnections(RemoteColumns[cols[x]])])

\* MondayAPI.discoverPriorityWorkspaces: workspaces, users and boards of the
\* priority workspaces.
discoverPriorityWorkspaces(includeArchived) ==
  LET pws == getPriorityWorkspaces
  IN  [ workspaces |-> pws,
        users |-> getUsers,
        boards |-> Flatten([x \in DOMAIN pws |->
                              getBoardsInWorkspace(pws[x].id, includeArchived)]) ]

analysis == <<hboards, report>>
pure == <<given, returned>>
store == <<workspaces, boards, columns, board_relationships, users>>
vars == <<issyncing, procs, workspaces, boards, columns, board_relationships,
          users, sync_metadata, now, calls, removed, hboards, report,
          given, returned>>

\* ---------------------------------------------------------- store adapter
\* saveWorkspaces: INSERT ... ON CONFLICT (id) DO UPDATE.
saveWorkspaces(tbl, list) == tbl \cup {list[x].id : x \in DOMAIN list}

\* The constraint as it would be if the schema declared no reference.
BoardForeignKeyUnchecked(wsTbl, board) == TRUE

\* boards.workspace_id REFERENCES workspaces(id).
BoardForeignKeyOk(wsTbl, board) == board.workspace = NULL \/ board.workspace \in wsTbl

\* saveBoards as it would be if it emptied the table before the INSERT, the
\* way saveColumns does for the columns of a board.
saveBoardsAfterDelete(tbl, board, t) ==
  [b \in {board.id} |->
     [workspace_id |-> board.workspace, state |-> board.state, last_synced |-> t]]

\* saveBoards([board]): INSERT ... ON CONFLICT (id) DO UPDATE, last_synced = now.
saveBoards(tbl, board, t) ==
  LET row == [workspace_id |-> board.workspace, state |-> board.state, last_synced |-> t]
  IN  [b \in DOMAIN tbl \cup {board.id} |-> IF b = board.id THEN row ELSE tbl[b]]

\* saveColumns, first statement: DELETE FROM columns WHERE board_id = boardId.
DeleteColumns(tbl, boardId) ==
  LET keep == {c \in DOMAIN tbl : tbl[c] # boardId}
  IN  [c \in keep |-> tbl[c]]

\* columns.id is the primary key of the whole table: the INSERT of saveColumns
\* fails on an id that is stored (for any board) or listed twice.
ColumnsInsertOk(tbl, cols) ==
  /\ \A x \in DOMAIN cols : cols[x] \notin DOMAIN tbl
  /\ \A x, y \in DOMAIN cols : cols[x] = cols[y] => x = y

\* saveColumns, second statement: INSERT INTO columns.
InsertColumns(tbl, boardId, cols) ==
  [c \in DOMAIN tbl \cup Range(cols) |-> IF c \in Range(cols) THEN boardId ELSE tbl[c]]

\* columns of a board as stored.
StoredColumns(tbl, boardId) == {c \in DOMAIN tbl : tbl[c] = boardId}

\* saveUsers: INSERT ... ON CONFLICT (id) DO UPDATE.
saveUsers(tbl, list) == tbl \cup Range(list)

\* The key of UNIQUE(source_board_id, target_board_id, relationship_type,
\* source_column_id).
RelKey(row) == <<row.source_board_id, row.target_board_id, row.relationship_type,
                 row.source_column_id>>

\* board_relationships.source_board_id and target_board_id REFERENCES boards(id).
\* Both columns are nullable, and a NULL satisfies the reference.
RelForeignKeysOk(boardTbl, row) ==
  /\ row.source_board_id = NULL \/ row.source_board_id \in DOMAIN boardTbl
  /\ row.target_board_id = NULL \/ row.target_board_id \in DOMAIN boardTbl

\* saveBoardRelationship as it would be without its ON CONFLICT clause on a
\* table without the unique key: a plain INSERT.
saveBoardRelationshipPlainInsert(tbl, row) == Append(tbl, row)

\* saveBoardRelationship: INSERT ... ON CONFLICT (the unique key) DO UPDATE.
\* A row with a NULL in its key never conflicts (NULLs are distinct in UNIQUE).
saveBoardRelationship(tbl, row) ==
  IF /\ row.source_column_id # NULL /\ row.target_board_id # NULL
     /\ row.source_board_id # NULL
     /\ \E x \in DOMAIN tbl : RelKey(tbl[x]) = RelKey(row)
  THEN tbl
  ELSE Append(tbl, row)

\* startSync as it would be if it recorded no scope.
startSyncWithoutScope(tbl, type, workspaceId) ==
  Append(tbl, [sync_type |-> type, workspace_id |-> NULL, status |-> "running",
               error_message |-> NULL, processed |-> 0, created |-> 0, updated |-> 0,
               completed_at |-> {}])

\* startSync: INSERT INTO sync_metadata (..., status) VALUES (..., 'running').
startSync(tbl, type, workspaceId) ==
  Append(tbl, [sync_type |-> type, workspace_id |-> workspaceId, status |-> "running",
               error_message |-> NULL, processed |-> 0, created |-> 0, updated |-> 0,
               completed_at |-> {}])

\* completeSync: UPDATE sync_metadata SET status = 'completed', completed_at =
\* CURRENT_TIMESTAMP, counts.  The empty set stands for a NULL completed_at.
completeSync(tbl, syncId, stats, t) ==
  [tbl EXCEPT ![syncId] = [@ EXCEPT !.status = "completed",
                                    !.completed_at = {t},
                                    !.processed = stats.processed,
                                    !.created = stats.created,
                                    !.updated = stats.updated]]

\* failSync: UPDATE sync_metadata SET status = 'failed', error_message.
failSync(tbl, syncId, error, t) ==
  [tbl EXCEPT ![syncId] = [@ EXCEPT !.status = "failed", !.completed_at = {t},
                                    !.error_message = error]]

\* cleanup: DELETE FROM sync_metadata WHERE id NOT IN (the keepSyncRuns rows
\* started last).  Rows are kept in the order they were started in.
cleanup(tbl) ==
  IF Len(tbl) <= keepSyncRuns THEN tbl
  ELSE [x \in {y \in DOMAIN tbl : y > Len(tbl) - keepSyncRuns} |-> tbl[x]]

\* MAX(b.last_synced) of getOrganizationOverview, FROM workspaces w LEFT JOIN
\* boards b ON w.id = b.workspace_id: the empty set stands for SQL NULL.
getOrganizationOverview(wsTbl, boardTbl) ==
  LET joined == {b \in DOMAIN boardTbl : boardTbl[b].workspace_id \in wsTbl}
  IN  [ totalWorkspaces |-> Cardinality(wsTbl),
        totalBoards |-> Cardinality(joined),
        lastSyncTime |-> IF joined = {} THEN {}
                         ELSE {Max({boardTbl[b].last_synced : b \in joined})} ]

\* The five queries getOrganizationalStructure issues in one Promise.all,
\* without a transaction: each is answered at an instant of its own.
Queries == {"workspaces", "boards", "board_relationships", "users", "overview"}

\* No query answered yet.
NoAnswers == [workspaces |-> {}, boards |-> << >>, lastSyncTime |-> {}]

\* The answers so far, with the answer of query q on the tables as they are
\* now: the stored workspaces, the workspace of every stored board, the
\* overview's MAX(last_synced).  The relationships and the users are read by
\* no caller of the orchestrator.
Answer(answers, q, wsTbl, boardTbl) ==
  CASE q = "workspaces" -> [answers EXCEPT !.workspaces = wsTbl]
    [] q = "boards" ->
         [answers EXCEPT !.boards = [b \in DOMAIN boardTbl |-> boardTbl[b].workspace_id]]
    [] q = "overview" ->
         [answers EXCEPT !.lastSyncTime =
                           getOrganizationOverview(wsTbl, boardTbl).lastSyncTime]
    [] OTHER -> answers

\* getOrganizationalStructure, once its five queries are answered at time t:
\* lastScanned is overview.lastSyncTime || new Date().
getOrganizationalStructure(answers, t) ==
  [ workspaces |-> answers.workspaces,
    boards |-> answers.boards,
    lastScanned |-> IF answers.lastSyncTime = {} THEN t
                    ELSE Max(answers.lastSyncTime) ]

\* getOrganizationalStructure when nothing writes between its queries.
StoredStructure(wsTbl, boardTbl, t) ==
  getOrganizationalStructure(
    Answer(Answer(Answer(NoAnswers, "workspaces", wsTbl, boardTbl),
                  "boards", wsTbl, boardTbl), "overview", wsTbl, boardTbl), t)

\* getCacheStatus as it would be if it looked at the workspaces alone.
getCacheStatusWorkspacesOnly(orgData, t) ==
  LET cacheAge == t - orgData.lastScanned
  IN  [ isHealthy |-> Cardinality(orgData.workspaces) > 0,
        totalBoards |-> Cardinality(DOMAIN orgData.boards),
        totalWorkspaces |-> Cardinality(orgData.workspaces),
        cacheAge |-> cacheAge,
        needsRefresh |-> cacheAge > defaultTtlHours ]

\* CacheManager.getCacheStatus, the branch taken when the store read
\* succeeds, from the orgData it returned and Date.now().
getCacheStatus(orgData, t) ==
  LET cacheAge == t - orgData.lastScanned
  IN  [ isHealthy |-> Cardinality(orgData.workspaces) > 0
                        /\ Cardinality(DOMAIN orgData.boards) > 0,
        totalBoards |-> Cardinality(DOMAIN orgData.boards),
        totalWorkspaces |-> Cardinality(orgData.workspaces),
        cacheAge |-> cacheAge,
        needsRefresh |-> cacheAge > defaultTtlHours ]

\* CacheManager.getCacheStatus, the catch branch.
getCacheStatusFailed ==
  [ isHealthy |-> FALSE, totalBoards |-> 0, totalWorkspaces |-> 0,
    cacheAge |-> Infinity, needsRefresh |-> TRUE ]

\* The stored name of a stored workspace: the name saveWorkspaces wrote.
WorkspaceName(id) ==
  (CHOOSE w \in Range(RemoteWorkspaces) : w.id = id).name

\* The issues validateCacheIntegrity collects when the store read succeeds,
\* from the orgData it returned and Date.now().
CacheIntegrityIssues(orgData, t) ==
  LET foundWorkspaceNames == {WorkspaceName(w) : w \in orgData.workspaces}
      missingPriorityWorkspaces == getPriorityWorkspaceNames \ foundWorkspaceNames
      orphanedBoards == {b \in DOMAIN orgData.boards : orgData.boards[b] = NULL}
      cacheAge == t - orgData.lastScanned
  IN  (IF missingPriorityWorkspaces # {} THEN {"Missing priority workspaces"} ELSE {})
      \cup (IF orphanedBoards # {} THEN {"boards without workspace references"} ELSE {})
      \cup (IF cacheAge > defaultTtlHours * 2 THEN {"Cache is very old"} ELSE {})

\* The strategy as it would be if smartSync looked at cacheAge alone.
smartSyncStrategyByAge(status) ==
  IF status.cacheAge > veryOldHours THEN "full"
  ELSE IF status.needsRefresh THEN "incr"
  ELSE "cached"

\* The strategy as it would be with the refresh test placed first.
smartSyncStrategyRefreshFirst(status) ==
  IF status.needsRefresh THEN "incr"
  ELSE IF ~status.isHealthy \/ status.cacheAge > veryOldHours THEN "full"
  ELSE "cached"

\* The strategy smartSync picks for a status.
smartSyncStrategy(status) ==
  IF ~status.isHealthy \/ status.cacheAge > veryOldHours THEN "full"
  ELSE IF status.needsRefresh THEN "incr"
  ELSE "cached"

\* ------------------------------------------------------------ the callers
\* The mirror as a full sync finds it, kept to compare it with what the
\* sync leaves (taken is FALSE when nothing was kept).
NoSnapshot ==
  [ taken |-> FALSE, workspaces |-> {}, boards |-> {}, columns |-> << >>,
    board_relationships |-> << >> ]

\* A caller that runs no handler.  The fields are the handler's locals;
\* entry is the method it invoked when that is not the sync op itself, call
\* is the ordinal of the invocation, wrote and remote tell whether it has
\* written to the mirror or called the remote service, found is
\* relationshipsFound, pending and answers are the queries of a running
\* getOrganizationalStructure and what they returned, the seen fields are
\* the status getCacheStatus resolved to.
\* op, entry, scope, call, seenHealthy, seenAge, res and error outlive the
\* invocation: what the caller ran last and how it ended.
Idle ==
  [ pc |-> "idle", op |-> "none", call |-> 0, entry |-> "none",
    workspaceId |-> NULL, pending |-> {}, answers |-> NoAnswers,
    includeArchived |-> FALSE, scope |-> NULL, syncId |-> 0, wss |-> << >>,
    wi |-> 0, bds |-> << >>, i |-> 0, n |-> 0, j |-> 0, conns |-> << >>, k |-> 0,
    found |-> 0, thrown |-> NULL, error |-> NULL, wrote |-> FALSE, remote |-> FALSE,
    seenHealthy |-> FALSE, seenAge |-> 0, seenWorkspaces |-> 0, seenBoards |-> 0,
    snap |-> NoSnapshot, isValid |-> FALSE, issues |-> {}, res |-> "none" ]

\* The handler returns (res = "ok") or raises error to its caller.
Finish(r, res, error) ==
  [Idle EXCEPT !.op = r.op, !.scope = r.scope, !.call = r.call, !.entry = r.entry,
               !.seenHealthy = r.seenHealthy, !.seenAge = r.seenAge,
               !.seenWorkspaces = r.seenWorkspaces, !.seenBoards = r.seenBoards,
               !.res = res, !.error = error]

\* An exception inside the try block: control goes to the catch block.
Throw(r, error) == [r EXCEPT !.pc = "failSync", !.thrown = error, !.error = error]

Set(p, r) == procs' = [procs EXCEPT ![p] = r]

\* The finally block of priorityWorkspaceSync and incrementalSync;
\* syncSpecificPriorityWorkspace has none.
Finally(r) ==
  IF r.op \in {"full", "incr"} THEN issyncing' = FALSE ELSE UNCHANGED issyncing

\* The guard as it would be inside the try block: the finally block clears
\* the flag of the sync that is running.
SyncGuardInsideTry(p, r) ==
  IF issyncing
  THEN Set(p, Finish(r, "error", "Sync already in progress")) /\ issyncing' = FALSE
  ELSE Set(p, [r EXCEPT !.pc = "startSync"]) /\ issyncing' = TRUE

\* if (this.issyncing) throw new Error('Sync already in progress')
\* this.issyncing = true
SyncGuard(p, r) ==
  IF issyncing
  THEN Set(p, Finish(r, "error", "Sync already in progress")) /\ UNCHANGED issyncing
  ELSE Set(p, [r EXCEPT !.pc = "startSync"]) /\ issyncing' = TRUE

\* The guard of syncSpecificPriorityWorkspace as it would be without the test
\* of the allow-list.
ScopeGuardAnyScope(p, r) ==
  /\ IF issyncing
     THEN Set(p, Finish(r, "error", "Sync already in progress"))
     ELSE Set(p, [r EXCEPT !.pc = "startSync"])
  /\ UNCHANGED issyncing

\* The guard of syncSpecificPriorityWorkspace: the flag is read, never set.
ScopeGuard(p, r) ==
  /\ IF r.scope \notin getPriorityWorkspaceNames
     THEN Set(p, Finish(r, "error", "not a priority workspace"))
     ELSE IF issyncing
     THEN Set(p, Finish(r, "error", "Sync already in progress"))
     ELSE Set(p, [r EXCEPT !.pc = "startSync"])
  /\ UNCHANGED issyncing

CanCall(p) == procs[p].pc = "idle" /\ calls < MaxCalls

\* The locals of a handler that has just been invoked.
NewCall(op) == [Idle EXCEPT !.op = op, !.call = calls + 1]

\* The mirror at the invocation of a full sync that comes right after a
\* completed full sync, no other handler running.
Snapshot(p) ==
  IF /\ \A q \in Procs \ {p} : procs[q].pc = "idle"
     /\ Len(sync_metadata) > 0
     /\ sync_metadata[Len(sync_metadata)].sync_type = "priority_workspace_sync"
     /\ sync_metadata[Len(sync_metadata)].status = "completed"
  THEN [ taken |-> TRUE, workspaces |-> workspaces, boards |-> DOMAIN boards,
         columns |-> columns, board_relationships |-> board_relationships ]
  ELSE NoSnapshot

\* CacheManager.priorityWorkspaceSync / fullSync, up to the first await.
priorityWorkspaceSync(p) ==
  /\ CanCall(p)
  /\ calls' = calls + 1
  /\ \E includeArchived \in BOOLEAN :
       SyncGuard(p, [NewCall("full") EXCEPT !.includeArchived = includeArchived,
                                               !.snap = Snapshot(p)])
  /\ UNCHANGED <<store, sync_metadata, now, removed, analysis, pure>>

\* CacheManager.incrementalSync, up to the first await.
incrementalSync(p) ==
  /\ CanCall(p)
  /\ calls' = calls + 1
  /\ SyncGuard(p, NewCall("incr"))
  /\ UNCHANGED <<store, sync_metadata, now, removed, analysis, pure>>

\* CacheManager.syncSpecificPriorityWorkspace, up to the first await.
syncSpecificPriorityWorkspace(p) ==
  /\ CanCall(p)
  /\ calls' = calls + 1
  /\ \E workspaceName \in ScopeInputs :
       ScopeGuard(p, [NewCall("scoped") EXCEPT !.scope = workspaceName])
  /\ UNCHANGED <<store, sync_metadata, now, removed, analysis, pure>>

\* A method that begins with await getOrganizationalStructure(), itself or
\* through getCacheStatus: the five queries are issued.
NewRead(entry, pc) ==
  [NewCall("none") EXCEPT !.pc = pc, !.entry = entry, !.pending = Queries]

\* CacheManager.smartSync, up to the first await.
smartSync(p) ==
  /\ CanCall(p)
  /\ calls' = calls + 1
  /\ Set(p, NewRead("smartSync", "getCacheStatus"))
  /\ UNCHANGED <<issyncing, store, sync_metadata, now, removed, analysis, pure>>

\* CacheManager.refreshIfNeeded, up to the first await.
refreshIfNeeded(p) ==
  /\ CanCall(p)
  /\ calls' = calls + 1
  /\ Set(p, NewRead("refreshIfNeeded", "getCacheStatus"))
  /\ UNCHANGED <<issyncing, store, sync_metadata, now, removed, analysis, pure>>

\* quickSync, up to the first await.
quickSync(p) ==
  /\ CanCall(p)
  /\ calls' = calls + 1
  /\ Set(p, NewRead("quickSync", "getCacheStatus"))
  /\ UNCHANGED <<issyncing, store, sync_metadata, now, removed, analysis, pure>>

\* CacheManager.syncSpecificWorkspace, up to the first await.
syncSpecificWorkspace(p) ==
  /\ CanCall(p)
  /\ calls' = calls + 1
  /\ \E workspaceId \in WorkspaceIdInputs :
       Set(p, [NewRead("syncSpecificWorkspace", "syncSpecificWorkspace")
                 EXCEPT !.workspaceId = workspaceId])
  /\ UNCHANGED <<issyncing, store, sync_metadata, now, removed, analysis, pure>>

SyncType(r) ==
  CASE r.op = "full" -> "priority_workspace_sync"
    [] r.op = "incr" -> "incremental_priority_sync"
    [] OTHER -> "specific_priority_workspace_sync"

\* const syncId = await startSync(...): outside the try block, so a failure
\* leaves the handler at once, past the catch and the finally blocks.
StartSync(p) ==
  LET r == procs[p] IN
  /\ r.pc = "startSync"
  /\ \/ /\ sync_metadata' = startSync(sync_metadata, SyncType(r), r.scope)
        /\ Set(p, [r EXCEPT !.syncId = Len(sync_metadata) + 1,
                            !.pc = CASE r.op = "full" -> "testConnection"
                                     [] r.op = "incr" -> "getPriorityWorkspaces"
                                     [] OTHER -> "getWorkspaces"])
     \/ /\ Set(p, Finish(r, "error", "startSync: store error"))
        /\ UNCHANGED sync_metadata
  /\ UNCHANGED <<issyncing, store, now, calls, removed, analysis, pure>>

\* Promise.all([mondayApi.testConnection(), testDatabaseConnection()]): both
\* resolve to a boolean, whatever happens.
TestConnection(p) ==
  LET r == [procs[p] EXCEPT !.remote = TRUE] IN
  /\ r.pc = "testConnection"
  /\ \E mondayConnected, dbConnected \in BOOLEAN :
       Set(p, IF ~mondayConnected THEN Throw(r, "Monday.com API connection failed")
              ELSE IF ~dbConnected THEN Throw(r, "Database connection failed")
              ELSE [r EXCEPT !.pc = "discoverPriorityWorkspaces"])
  /\ UNCHANGED <<issyncing, store, sync_metadata, now, calls, removed, analysis, pure>>

\* The board loop: the next board to persist, or what follows the loop.
NextWorkspace(r, w) ==
  IF w <= Len(r.wss) THEN [r EXCEPT !.pc = "getBoardsInWorkspace", !.wi = w]
  ELSE [r EXCEPT !.pc = "completeSync"]

\* The board loop as it would be if a full sync completed its Sync Run right
\* after the last board.
NextBoardThenComplete(r, idx) ==
  IF idx <= Len(r.bds) THEN [r EXCEPT !.pc = "saveBoards", !.i = idx]
  ELSE CASE r.op = "incr" -> NextWorkspace(r, r.wi + 1)
         [] OTHER -> [r EXCEPT !.pc = "completeSync"]

NextBoard(r, idx) ==
  IF idx <= Len(r.bds) THEN [r EXCEPT !.pc = "saveBoards", !.i = idx]
  ELSE CASE r.op = "full" -> [r EXCEPT !.pc = "saveUsers"]
         [] r.op = "incr" -> NextWorkspace(r, r.wi + 1)
         [] OTHER -> [r EXCEPT !.pc = "completeSync"]

\* const orgData = await mondayApi.discoverPriorityWorkspaces(discoveryOptions),
\* its first request: const allWorkspaces = await this.getWorkspaces().
Discover(p) ==
  LET r == [procs[p] EXCEPT !.remote = TRUE] IN
  /\ r.pc = "discoverPriorityWorkspaces"
  /\ \/ Set(p, IF Len(getPriorityWorkspaces) = 0
               THEN Throw(r, "No priority workspaces found")
               ELSE [r EXCEPT !.wss = getPriorityWorkspaces, !.pc = "discoverUsers"])
     \/ Set(p, Throw(r, "discoverPriorityWorkspaces: remote error"))
  /\ UNCHANGED <<issyncing, store, sync_metadata, now, calls, removed, analysis, pure>>

\* discoverPriorityWorkspaces: const users = await this.getUsers()
DiscoverUsers(p) ==
  LET r == procs[p] IN
  /\ r.pc = "discoverUsers"
  /\ \/ Set(p, [r EXCEPT !.wi = 1, !.bds = << >>, !.pc = "discoverBoards"])
     \/ Set(p, Throw(r, "discoverPriorityWorkspaces: remote error"))
  /\ UNCHANGED <<issyncing, store, sync_metadata, now, calls, removed, analysis, pure>>

\* discoverPriorityWorkspaces: allBoards.push(...await
\* this.getBoardsInWorkspace(workspace.id, options)) for the workspace at
\* r.wi; after the last one the discovery returns.
DiscoverBoards(p) ==
  LET r == procs[p]
      allBoards == r.bds \o getBoardsInWorkspace(r.wss[r.wi].id, r.includeArchived)
  IN
  /\ r.pc = "discoverBoards"
  /\ \/ Set(p, IF r.wi < Len(r.wss)
               THEN [r EXCEPT !.bds = allBoards, !.wi = r.wi + 1]
               ELSE [r EXCEPT !.bds = allBoards, !.wi = 0, !.pc = "saveWorkspaces"])
     \/ Set(p, Throw(r, "discoverPriorityWorkspaces: remote error"))
  /\ UNCHANGED <<issyncing, store, sync_metadata, now, calls, removed, analysis, pure>>

\* const priorityWorkspaces = await mondayApi.getPriorityWorkspaces()
GetPriorityWorkspaces(p) ==
  LET r == [procs[p] EXCEPT !.remote = TRUE] IN
  /\ r.pc = "getPriorityWorkspaces"
  /\ \/ Set(p, IF Len(getPriorityWorkspaces) = 0
               THEN Throw(r, "No priority workspaces found for incremental sync")
               ELSE NextWorkspace([r EXCEPT !.wss = getPriorityWorkspaces], 1))
     \/ Set(p, Throw(r, "getPriorityWorkspaces: remote error"))
  /\ UNCHANGED <<issyncing, store, sync_metadata, now, calls, removed, analysis, pure>>

\* const allWorkspaces = await mondayApi.getWorkspaces(); find by name.
GetWorkspaces(p) ==
  LET r == [procs[p] EXCEPT !.remote = TRUE]
      Named(w) == w.name = r.scope
      found == SelectSeq(getWorkspaces, Named)
  IN
  /\ r.pc = "getWorkspaces"
  /\ \/ Set(p, IF Len(found) = 0
               THEN Throw(r, "Priority workspace not found in Monday.com")
               ELSE [r EXCEPT !.wss = << found[1] >>, !.wi = 1,
                              !.pc = "getBoardsInWorkspace"])
     \/ Set(p, Throw(r, "getWorkspaces: remote error"))
  /\ UNCHANGED <<issyncing, store, sync_metadata, now, calls, removed, analysis, pure>>

\* await mondayApi.getBoardsInWorkspace(workspace.id, {includeArchived: ...}):
\* incrementalSync asks without archived boards and keeps the active ones,
\* syncSpecificPriorityWorkspace asks with the configured flag and goes on to
\* save the workspace.
GetBoardsInWorkspace(p) ==
  LET r == [procs[p] EXCEPT !.remote = TRUE]
      got == getBoardsInWorkspace(r.wss[r.wi].id,
                                  IF r.op = "incr" THEN FALSE
                                  ELSE boardFiltersIncludeArchived)
      IsActive(b) == b.state = "active"
  IN
  /\ r.pc = "getBoardsInWorkspace"
  /\ \/ Set(p, IF r.op = "incr"
               THEN NextBoard([r EXCEPT !.bds = SelectSeq(got, IsActive)], 1)
               ELSE [r EXCEPT !.bds = got, !.pc = "saveWorkspaces"])
     \/ Set(p, Throw(r, "getBoardsInWorkspace: remote error"))
  /\ UNCHANGED <<issyncing, store, sync_metadata, now, calls, removed, analysis, pure>>

\* await saveWorkspaces(orgData.workspaces) / saveWorkspaces([targetWorkspace])
SaveWorkspaces(p) ==
  LET r == procs[p] IN
  /\ r.pc = "saveWorkspaces"
  /\ \/ /\ workspaces' = saveWorkspaces(workspaces, r.wss)
        /\ Set(p, NextBoard([r EXCEPT !.wrote = TRUE], 1))
     \/ /\ Set(p, Throw(r, "saveWorkspaces: store error"))
        /\ UNCHANGED workspaces
  /\ UNCHANGED <<issyncing, boards, columns, board_relationships, users,
                 sync_metadata, now, calls, removed, analysis, pure>>

\* What follows saveColumns(board.id, board.columns) for the board at r.i.
AfterColumns(r) ==
  NextBoard([r EXCEPT !.n = IF r.op = "incr" THEN r.n + 1 ELSE r.n], r.i + 1)

\* await saveBoards([board]); saveColumns returns at once on an empty list.
SaveBoards(p) ==
  LET r == procs[p]
      board == r.bds[r.i]
  IN
  /\ r.pc = "saveBoards"
  /\ \/ /\ BoardForeignKeyOk(workspaces, board)
        /\ boards' = saveBoards(boards, board, now)
        /\ Set(p, IF Len(board.columns) = 0
                  THEN AfterColumns([r EXCEPT !.wrote = TRUE])
                  ELSE [r EXCEPT !.wrote = TRUE, !.pc = "deleteColumns"])
     \/ /\ ~BoardForeignKeyOk(workspaces, board)
        /\ Set(p, Throw(r, "saveBoards: foreign key violation"))
        /\ UNCHANGED boards
     \/ /\ Set(p, Throw(r, "saveBoards: store error"))
        /\ UNCHANGED boards
  /\ UNCHANGED <<issyncing, workspaces, columns, board_relationships, users,
                 sync_metadata, now, calls, removed, analysis, pure>>

\* saveColumns: await sql`DELETE FROM columns WHERE board_id = ${boardId}`
DeleteColumnsStep(p) ==
  LET r == procs[p]
      board == r.bds[r.i]
  IN
  /\ r.pc = "deleteColumns"
  /\ \/ /\ columns' = DeleteColumns(columns, board.id)
        /\ Set(p, [r EXCEPT !.wrote = TRUE, !.pc = "insertColumns"])
     \/ /\ Set(p, Throw(r, "saveColumns: store error"))
        /\ UNCHANGED columns
  /\ UNCHANGED <<issyncing, workspaces, boards, board_relationships, users,
                 sync_metadata, now, calls, removed, analysis, pure>>

\* saveColumns: await sql`INSERT INTO columns ${sql(values)}`
InsertColumnsStep(p) ==
  LET r == procs[p]
      board == r.bds[r.i]
  IN
  /\ r.pc = "insertColumns"
  /\ \/ /\ ColumnsInsertOk(columns, board.columns)
        /\ columns' = InsertColumns(columns, board.id, board.columns)
        /\ Set(p, AfterColumns(r))
     \/ /\ ~ColumnsInsertOk(columns, board.columns)
        /\ Set(p, Throw(r, "saveColumns: duplicate key"))
        /\ UNCHANGED columns
     \/ /\ Set(p, Throw(r, "saveColumns: store error"))
        /\ UNCHANGED columns
  /\ UNCHANGED <<issyncing, workspaces, boards, board_relationships, users,
                 sync_metadata, now, calls, removed, analysis, pure>>

\* Discovery as it would be if the first failure or board ended it.
NextDiscoveryBoardFirstOnly(r, idx) ==
  IF idx <= 1
  THEN [r EXCEPT !.pc = "getBoardConnections", !.j = idx, !.conns = << >>, !.k = 0]
  ELSE [r EXCEPT !.pc = "completeSync", !.conns = << >>, !.k = 0]

\* Relationship discovery: the next board to look at, or the end of it.
NextDiscoveryBoard(r, idx) ==
  IF idx <= Len(r.bds)
  THEN [r EXCEPT !.pc = "getBoardConnections", !.j = idx, !.conns = << >>, !.k = 0]
  ELSE [r EXCEPT !.pc = "completeSync", !.conns = << >>, !.k = 0]

\* The filter as it would be if every discovered target were accepted.
targetBoardAccepted(bds, targetBoard) == TRUE

\* boards.some(b => b.id === connection.targetBoard)
targetBoardExists(bds, targetBoard) == \E x \in DOMAIN bds : bds[x].id = targetBoard

\* The connection loop: connections to boards outside the set are skipped
\* without an await; the next one inside the set is saved.
NextConnection(r, idx) ==
  LET inside == {x \in idx..Len(r.conns) : targetBoardExists(r.bds, r.conns[x].targetBoard)}
  IN  IF inside = {} THEN NextDiscoveryBoard(r, r.j + 1)
      ELSE [r EXCEPT !.pc = "saveBoardRelationship",
                     !.k = CHOOSE x \in inside : \A y \in inside : x <= y]

\* await saveUsers(orgData.users); then syncPriorityBoardRelationships starts.
SaveUsers(p) ==
  LET r == procs[p] IN
  /\ r.pc = "saveUsers"
  /\ \/ /\ users' = saveUsers(users, getUsers)
        /\ Set(p, NextDiscoveryBoard([r EXCEPT !.wrote = TRUE], 1))
     \/ /\ Set(p, Throw(r, "saveUsers: store error"))
        /\ UNCHANGED users
  /\ UNCHANGED <<issyncing, workspaces, boards, columns, board_relationships,
                 sync_metadata, now, calls, removed, analysis, pure>>

\* const connections = await mondayApi.getBoardConnections(board.id); a
\* failure is caught per board.
GetBoardConnections(p) ==
  LET r == [procs[p] EXCEPT !.remote = TRUE] IN
  /\ r.pc = "getBoardConnections"
  /\ \/ Set(p, NextConnection([r EXCEPT !.conns = getBoardConnections(r.bds[r.j].id)], 1))
     \/ Set(p, NextDiscoveryBoard(r, r.j + 1))
  /\ UNCHANGED <<issyncing, store, sync_metadata, now, calls, removed, analysis, pure>>

\* The row syncPriorityBoardRelationships hands to saveBoardRelationship.
RelationshipRow(boardId, connection) ==
  [ source_board_id |-> boardId,
    target_board_id |-> connection.targetBoard,
    relationship_type |-> connection.type,
    source_column_id |-> connection.columnId ]

\* await saveBoardRelationship({...}); a failure is caught per board.
SaveBoardRelationship(p) ==
  LET r == procs[p]
      row == RelationshipRow(r.bds[r.j].id, r.conns[r.k])
  IN
  /\ r.pc = "saveBoardRelationship"
  /\ \/ /\ RelForeignKeysOk(boards, row)
        /\ board_relationships' = saveBoardRelationship(board_relationships, row)
        /\ Set(p, NextConnection([r EXCEPT !.wrote = TRUE, !.found = r.found + 1], r.k + 1))
     \/ /\ Set(p, NextDiscoveryBoard(r, r.j + 1))
        /\ UNCHANGED board_relationships
  /\ UNCHANGED <<issyncing, workspaces, boards, columns, users,
                 sync_metadata, now, calls, removed, analysis, pure>>

\* The counts as they would be if a full sync counted workspaces as created.
SyncStatsCountingWorkspaces(r) ==
  CASE r.op = "full" ->
         [processed |-> Len(r.wss) + Len(r.bds) + Len(getUsers),
          created |-> Len(r.wss) + Len(r.bds), updated |-> 0]
    [] r.op = "incr" -> [processed |-> r.n, created |-> 0, updated |-> r.n]
    [] OTHER -> [processed |-> Len(r.bds) + 1, created |-> 0, updated |-> Len(r.bds) + 1]

\* The counts as they would be if an incremental sync counted its boards as
\* created.
SyncStatsIncrementalCreates(r) ==
  CASE r.op = "full" ->
         [processed |-> Len(r.wss) + Len(r.bds) + Len(getUsers),
          created |-> Len(r.bds), updated |-> 0]
    [] r.op = "incr" -> [processed |-> r.n, created |-> r.n, updated |-> 0]
    [] OTHER -> [processed |-> Len(r.bds) + 1, created |-> 0, updated |-> Len(r.bds) + 1]

\* The counts each handler hands to completeSync.
SyncStats(r) ==
  CASE r.op = "full" ->
         [processed |-> Len(r.wss) + Len(r.bds) + Len(getUsers),
          created |-> Len(r.bds), updated |-> 0]
    [] r.op = "incr" -> [processed |-> r.n, created |-> 0, updated |-> r.n]
    [] OTHER -> [processed |-> Len(r.bds) + 1, created |-> 0, updated |-> Len(r.bds) + 1]

\* await completeSync(syncId, {...}); syncSpecificPriorityWorkspace returns
\* after it, the other two go on to read the mirror.
CompleteSync(p) ==
  LET r == procs[p] IN
  /\ r.pc = "completeSync"
  /\ \/ /\ sync_metadata' = completeSync(sync_metadata, r.syncId, SyncStats(r), now)
        /\ Set(p, IF r.op = "scoped" THEN Finish(r, "ok", NULL)
                  ELSE [r EXCEPT !.pc = "getOrganizationalStructure"])
     \/ /\ Set(p, Throw(r, "completeSync: store error"))
        /\ UNCHANGED sync_metadata
  /\ UNCHANGED <<issyncing, store, now, calls, removed, analysis, pure>>

\* return await getOrganizationalStructure(): inside the try block of the
\* two syncs, bare in the fresh branch of smartSync.
GetOrganizationalStructure(p) ==
  LET r == procs[p] IN
  /\ r.pc = "getOrganizationalStructure"
  /\ \/ /\ Set(p, Finish(r, "ok", NULL))
        /\ Finally(r)
     \/ /\ r.op \in {"full", "incr"}
        /\ Set(p, Throw(r, "getOrganizationalStructure: store error"))
        /\ UNCHANGED issyncing
     \/ /\ r.op = "cached"
        /\ Set(p, Finish(r, "error", "getOrganizationalStructure: store error"))
        /\ UNCHANGED issyncing
  /\ UNCHANGED <<store, sync_metadata, now, calls, removed, analysis, pure>>

\* catch (error) { await failSync(syncId, message); throw error } and the
\* finally block: a failure of failSync replaces the error that is raised.
FailSync(p) ==
  LET r == procs[p] IN
  /\ r.pc = "failSync"
  /\ \/ /\ sync_metadata' = failSync(sync_metadata, r.syncId, r.error, now)
        /\ Set(p, Finish(r, "error", r.error))
     \/ /\ Set(p, Finish(r, "error", "failSync: store error"))
        /\ UNCHANGED sync_metadata
  /\ Finally(r)
  /\ UNCHANGED <<store, now, calls, removed, analysis, pure>>

\* What the caller of getCacheStatus does with the status, in the same turn:
\* smartSync by its strategy, refreshIfNeeded an incremental sync or nothing,
\* quickSync a full sync or a plain read.  The sync that is picked runs its
\* guard at once.
Dispatch(p, r, status) ==
  LET seen == [r EXCEPT !.pending = {}, !.answers = NoAnswers,
                        !.seenHealthy = status.isHealthy, !.seenAge = status.cacheAge,
                        !.seenWorkspaces = status.totalWorkspaces,
                        !.seenBoards = status.totalBoards]
      strategy == CASE r.entry = "smartSync" -> smartSyncStrategy(status)
                    [] r.entry = "refreshIfNeeded" ->
                         IF status.needsRefresh THEN "incr" ELSE "fresh"
                    [] OTHER -> IF ~status.isHealthy THEN "full" ELSE "cached"
  IN  CASE strategy = "cached" ->
             /\ Set(p, [seen EXCEPT !.op = "cached", !.pc = "getOrganizationalStructure"])
             /\ UNCHANGED issyncing
        [] strategy = "fresh" ->
             /\ Set(p, Finish([seen EXCEPT !.op = "fresh"], "ok", NULL))
             /\ UNCHANGED issyncing
        [] OTHER ->
             SyncGuard(p, [seen EXCEPT !.op = strategy,
                                       !.snap = IF strategy = "full" THEN Snapshot(p)
                                                ELSE NoSnapshot])

\* const status = await this.getCacheStatus(): one query of its
\* getOrganizationalStructure is answered, or fails and the catch block
\* resolves to the failed status; with the last answer the status is
\* computed and handed to the caller.
GetCacheStatus(p) ==
  LET r == procs[p] IN
  /\ r.pc = "getCacheStatus"
  /\ \/ \E q \in r.pending :
          LET answers == Answer(r.answers, q, workspaces, boards) IN
          IF r.pending = {q}
          THEN Dispatch(p, r, getCacheStatus(getOrganizationalStructure(answers, now), now))
          ELSE /\ Set(p, [r EXCEPT !.pending = r.pending \ {q}, !.answers = answers])
               /\ UNCHANGED issyncing
     \/ Dispatch(p, r, getCacheStatusFailed)
  /\ UNCHANGED <<store, sync_metadata, now, calls, removed, analysis, pure>>

\* return this.syncSpecificPriorityWorkspace(workspace.name), whose guard
\* runs in the same turn, or throw new Error(`Workspace ... not found`).
FindWorkspace(p, r, orgData) ==
  LET found == [r EXCEPT !.pending = {}, !.answers = NoAnswers] IN
  IF r.workspaceId \in orgData.workspaces
  THEN ScopeGuard(p, [found EXCEPT !.op = "scoped", !.scope = WorkspaceName(r.workspaceId)])
  ELSE /\ Set(p, Finish(found, "error", "Workspace not found"))
       /\ UNCHANGED issyncing

\* const orgData = await getOrganizationalStructure() of syncSpecificWorkspace:
\* one query is answered, or fails and the error reaches the caller.
SyncSpecificWorkspaceReads(p) ==
  LET r == procs[p] IN
  /\ r.pc = "syncSpecificWorkspace"
  /\ \/ \E q \in r.pending :
          LET answers == Answer(r.answers, q, workspaces, boards) IN
          IF r.pending = {q}
          THEN FindWorkspace(p, r, getOrganizationalStructure(answers, now))
          ELSE /\ Set(p, [r EXCEPT !.pending = r.pending \ {q}, !.answers = answers])
               /\ UNCHANGED issyncing
     \/ /\ Set(p, Finish(r, "error", "getOrganizationalStructure: store error"))
        /\ UNCHANGED issyncing
  /\ UNCHANGED <<store, sync_metadata, now, calls, removed, analysis, pure>>

\* Hours pass on the wall clock, inside a handler as well as between two.
Tick ==
  /\ now + TickStep <= MaxNow
  /\ now' = now + TickStep
  /\ UNCHANGED <<issyncing, procs, store, sync_metadata, calls, removed, analysis, pure>>

\* CacheManager.validateCacheIntegrity, up to its await.
validateCacheIntegrity(p) ==
  /\ CanCall(p)
  /\ calls' = calls + 1
  /\ Set(p, NewRead("validateCacheIntegrity", "validateCacheIntegrity"))
  /\ UNCHANGED <<issyncing, store, sync_metadata, now, removed, analysis, pure>>

\* validateCacheIntegrity returns the issues it collected.
ValidationResult(r, issues) ==
  [Finish(r, "ok", NULL) EXCEPT !.issues = issues, !.isValid = (issues = {})]

\* const orgData = await getOrganizationalStructure() and the rest of
\* validateCacheIntegrity: one query is answered, or fails and the catch
\* block returns its one issue; with the last answer the issues are collected.
ValidateCacheIntegrityReturns(p) ==
  LET r == procs[p] IN
  /\ r.pc = "validateCacheIntegrity"
  /\ \/ \E q \in r.pending :
          LET answers == Answer(r.answers, q, workspaces, boards) IN
          Set(p, IF r.pending = {q}
                 THEN ValidationResult(r, CacheIntegrityIssues(
                                            getOrganizationalStructure(answers, now), now))
                 ELSE [r EXCEPT !.pending = r.pending \ {q}, !.answers = answers])
     \/ Set(p, ValidationResult(r, {"Cache validation failed"}))
  /\ UNCHANGED <<issyncing, store, sync_metadata, now, calls, removed, analysis, pure>>

\* CacheManager.clearCache: logs that clearing is not implemented and returns.
clearCache(p) ==
  /\ CanCall(p)
  /\ calls' = calls + 1
  /\ Set(p, Finish(NewCall("clear"), "ok", NULL))
  /\ UNCHANGED <<issyncing, store, sync_metadata, now, removed, analysis, pure>>

\* A user of the remote service removes every column of a board.
RemoveColumnsRemotely ==
  /\ removed = {}
  /\ \E b \in Removable : removed' = {b}
  /\ UNCHANGED <<issyncing, procs, store, sync_metadata, now, calls, analysis, pure>>

\* -------------------------------------------------------- health analyzer
\* Nothing analysed yet.
NoReport == [kind |-> "none"]

\* Date.now() of the analyses: late enough for a board to be abandoned.
AnalysisNow == (2 * inactiveDaysThreshold + 1) * HoursPerDay

\* The value of an optional number, the empty set standing for a missing one.
ValueOf(field) == CHOOSE n \in field : TRUE

\* board.items_count || 0
ItemCount(board) == IF board.items_count = {} THEN 0 ELSE ValueOf(board.items_count)

\* Date.now() - createdAt.getTime(), createdAt being updated_at or now.
BoardAge(board, t) == IF board.updated_at = {} THEN 0 ELSE t - ValueOf(board.updated_at)

\* analyzeBoardHealth after its early return: inactivity, item count, board
\* state and the positive indicator, in the order of the code.
AnalyzedStatus(board, t) ==
  LET boardAge == BoardAge(board, t)
      daysSinceActivity ==
        IF board.updated_at = {} THEN Infinity ELSE t - ValueOf(board.updated_at)
      itemCount == ItemCount(board)
      afterInactivity ==
        IF daysSinceActivity > inactiveDaysThreshold * 2 * HoursPerDay THEN "abandoned"
        ELSE IF daysSinceActivity > inactiveDaysThreshold * HoursPerDay THEN "inactive"
        ELSE "healthy"
      itemIssue ==
        \/ itemCount = 0 /\ boardAge > 7 * HoursPerDay
        \/ itemCount < underutilizedItemsThreshold /\ boardAge > 14 * HoursPerDay
      afterItems ==
        IF itemIssue /\ afterInactivity = "healthy" THEN "warning" ELSE afterInactivity
      afterState ==
        IF board.state \in {"archived", "deleted"} THEN "abandoned" ELSE afterItems
  IN  IF itemCount > 20 /\ daysSinceActivity < 7 * HoursPerDay THEN "healthy"
      ELSE afterState

\* The analysis as it would be without the early return for new boards.
analyzeBoardHealthOfAnyAge(board, t) ==
  [ kind |-> "board", board |-> board, status |-> AnalyzedStatus(board, t),
    itemsCount |-> ItemCount(board) ]

\* HealthAnalyzer.analyzeBoardHealth at time t (hours).
analyzeBoardHealth(board, t) ==
  [ kind |-> "board", board |-> board,
    status |-> IF BoardAge(board, t) < minBoardAgeForAnalysis * HoursPerDay
               THEN "healthy" ELSE AnalyzedStatus(board, t),
    itemsCount |-> ItemCount(board) ]

\* Array.prototype.reduce((sum, b) => sum + (b.items_count || 0), 0)
RECURSIVE SumItems(_)
SumItems(list) ==
  IF list = << >> THEN 0 ELSE ItemCount(Head(list)) + SumItems(Tail(list))

\* Math.round of the non-negative fraction n / d.  The fractions of
\* analyzeWorkspaceHealth never have a fractional part of one half for the
\* board counts analysed here, so the double arithmetic rounds the same way.
Round(n, d) == (2 * n + d) \div (2 * d)

\* HealthAnalyzer.analyzeWorkspaceHealth at time t; the score is
\* Math.round((healthyRatio * 50 + activeRatio * 30 + utilizationRatio * 20) * 100).
analyzeWorkspaceHealth(workspace, allBoards, t) ==
  LET workspaceBoards == SelectSeq(allBoards, LAMBDA b : b.workspace = workspace)
      status(b) == analyzeBoardHealth(b, t).status
      boardsHealthy == Len(SelectSeq(workspaceBoards, LAMBDA b : status(b) = "healthy"))
      boardsWarning == Len(SelectSeq(workspaceBoards, LAMBDA b : status(b) = "warning"))
      boardsInactive ==
        Len(SelectSeq(workspaceBoards, LAMBDA b : status(b) \in {"inactive", "abandoned"}))
      totalBoards == Len(workspaceBoards)
      activeBoards == Len(SelectSeq(workspaceBoards, LAMBDA b : b.state = "active"))
      items == SumItems(workspaceBoards)
      cappedItems == IF items > totalBoards * 10 THEN totalBoards * 10 ELSE items
  IN  [ kind |-> "workspace", workspace |-> workspace,
        boardsHealthy |-> boardsHealthy, boardsWarning |-> boardsWarning,
        boardsInactive |-> boardsInactive, totalBoards |-> totalBoards,
        overallScore |->
          IF totalBoards > 0
          THEN Round((boardsHealthy * 50 * 10 + activeBoards * 30 * 10
                        + cappedItems * 20) * 100,
                     totalBoards * 10)
          ELSE 0 ]

\* Ages (hours) around every threshold of analyzeBoardHealth.
BoardAges ==
  LET around(days) == {days * HoursPerDay - 1, days * HoursPerDay, days * HoursPerDay + 1}
  IN  {0} \cup around(minBoardAgeForAnalysis) \cup around(14)
          \cup around(inactiveDaysThreshold) \cup around(2 * inactiveDaysThreshold)

\* The boards handed to analyzeBoardHealth.
BoardInputs ==
  [ workspace : {"w1"},
    state : {"active", "archived", "deleted"},
    items_count : {{}, {0}, {underutilizedItemsThreshold - 1},
                   {underutilizedItemsThreshold}, {20}, {21}},
    updated_at : {{}} \cup {{AnalysisNow - a} : a \in BoardAges} ]

\* The boards handed to analyzeWorkspaceHealth.
WorkspaceBoardInputs ==
  [ workspace : {"w1", "w2"},
    state : {"active", "archived"},
    items_count : {{}, {underutilizedItemsThreshold - 1}, {10}, {21}},
    updated_at : {{AnalysisNow}, {AnalysisNow - (inactiveDaysThreshold + 1) * HoursPerDay}} ]

\* healthAnalyzer.analyzeBoardHealth(board)
AnalyzeBoardHealth ==
  /\ \E x \in DOMAIN hboards : report' = analyzeBoardHealth(hboards[x], AnalysisNow)
  /\ UNCHANGED <<issyncing, procs, store, sync_metadata, now, calls, removed, hboards, pure>>

\* healthAnalyzer.analyzeWorkspaceHealth(workspace, allBoards)
AnalyzeWorkspaceHealth ==
  /\ \E w \in {"w1", "w2"} : report' = analyzeWorkspaceHealth(w, hboards, AnalysisNow)
  /\ UNCHANGED <<issyncing, procs, store, sync_metadata, now, calls, removed, hboards, pure>>

\* -------------------------------------------------------------- API client
\* No call made yet.
NoValue == [op |-> "none"]

\* What fetch gives one request: a rejection, or a response with its status
\* and body.  data is the "data" member of the body: "me" for an object
\* holding the me object, "no me" for one whose me is null, "null" for null;
\* errors is the optional "errors" member.
Responses ==
  [ fetch : {"rejected", "resolved"}, ok : BOOLEAN, json : {"valid", "invalid"},
    data : {"me", "no me", "null"},
    errors : {{}, {<< >>}, {<<"Invalid query">>}} ]

\* query as it would be if it returned the data whatever the errors list.
queryIgnoringErrors(response) ==
  IF response.fetch = "rejected" THEN [raised |-> TRUE, error |-> "Network error"]
  ELSE IF ~response.ok THEN [raised |-> TRUE, error |-> "Monday.com API error"]
  ELSE IF response.json = "invalid" THEN [raised |-> TRUE, error |-> "SyntaxError"]
  ELSE [raised |-> FALSE, data |-> response.data]

\* MondayAPI.query: what the call gives for the response fetch got.
query(response) ==
  IF response.fetch = "rejected" THEN [raised |-> TRUE, error |-> "Network error"]
  ELSE IF ~response.ok THEN [raised |-> TRUE, error |-> "Monday.com API error"]
  ELSE IF response.json = "invalid" THEN [raised |-> TRUE, error |-> "SyntaxError"]
  ELSE IF response.errors # {} /\ Len(ValueOf(response.errors)) > 0
  THEN [raised |-> TRUE, error |-> "Monday.com GraphQL error"]
  ELSE [raised |-> FALSE, data |-> response.data]

\* MondayAPI.testConnection: the probe query, result.me.name (a TypeError
\* without a me object) and validatePriorityWorkspaceSetup, which catches its
\* own failures; every failure ends in the catch block.
testConnection(response) ==
  LET result == query(response)
  IN  IF result.raised THEN FALSE
      ELSE IF result.data # "me" THEN FALSE
      ELSE TRUE

\* api.query(...)
Query ==
  /\ returned' = [op |-> "query", result |-> query(given)]
  /\ UNCHANGED <<issyncing, procs, store, sync_metadata, now, calls, removed,
                 analysis, given>>

\* api.testConnection()
ProbeConnection ==
  /\ returned' = [op |-> "testConnection", result |-> testConnection(given)]
  /\ UNCHANGED <<issyncing, procs, store, sync_metadata, now, calls, removed,
                 analysis, given>>

\* ---------------------------------------------- discovery of an organization
\* The remote organizations discovery is run against: the workspaces the
\* remote lists, in its order, and up to MaxBoards boards.
ListedWorkspaces ==
  {SelectSeq(RemoteWorkspaces, LAMBDA w : w.id \in ids) :
     ids \in SUBSET {w.id : w \in Range(RemoteWorkspaces)}}

ListedBoards ==
  [ workspace : {"w1", "wx"}, state : {"active", "archived"}, items_count : {{}, {5}} ]

Organizations ==
  [ workspaces : ListedWorkspaces,
    boards : UNION {[1..n -> ListedBoards] : n \in 0..MaxBoards},
    users : {RemoteUsers},
    includeArchived : BOOLEAN ]

\* getBoardsInWorkspace against a given remote.
BoardsInWorkspace(remote, workspaceId) ==
  SelectSeq(remote.boards,
            LAMBDA b : /\ b.workspace = workspaceId
                       /\ \/ b.state = "active"
                          \/ remote.includeArchived /\ b.state = "archived")

\* The healthMetrics both discovery methods compute from what they fetched.
DiscoveredMetrics(wsList, allBoards) ==
  [ totalWorkspaces |-> Len(wsList),
    totalBoards |-> Len(allBoards),
    activeBoards |-> Len(SelectSeq(allBoards, LAMBDA b : b.state = "active")),
    archivedBoards |-> Len(SelectSeq(allBoards, LAMBDA b : b.state = "archived")),
    totalItems |-> SumItems(allBoards) ]

\* The structure discovery returns from what its requests fetched.
DiscoveredStructure(wsList, allUsers, allBoards) ==
  [ raised |-> FALSE, workspaces |-> wsList, boards |-> allBoards,
    relationships |-> << >>, users |-> allUsers,
    healthMetrics |-> DiscoveredMetrics(wsList, allBoards) ]

\* MondayAPI.discoverOrganization of the earlier client on a remote that stays
\* as it is: every workspace the remote lists.
discoverOrganizationOfAll(remote) ==
  DiscoveredStructure(remote.workspaces, remote.users,
    Flatten([x \in DOMAIN remote.workspaces |->
               BoardsInWorkspace(remote, remote.workspaces[x].id)]))

\* api.discoverOrganization(options) called: return
\* this.discoverPriorityWorkspaces(options), its first request sent.
discoverOrganization ==
  [ op |-> "discoverPriorityWorkspaces", pc |-> "getWorkspaces", disturbed |-> FALSE,
    wss |-> << >>, users |-> << >>, bds |-> << >>, wi |-> 0 ]

\* What the call settles with.
DiscoveryResult(r, result) ==
  [op |-> "discoverOrganization", disturbed |-> r.disturbed, result |-> result]

\* const allWorkspaces = await this.getWorkspaces(): the workspaces with a
\* priority name are kept; without one the call throws.
DiscoverOrganizationWorkspaces ==
  LET priorityWorkspaces ==
        SelectSeq(given.workspaces, LAMBDA w : w.name \in getPriorityWorkspaceNames)
  IN
  /\ returned.op = "discoverPriorityWorkspaces" /\ returned.pc = "getWorkspaces"
  /\ returned' = IF Len(priorityWorkspaces) = 0
                 THEN DiscoveryResult(returned,
                        [raised |-> TRUE, error |-> "No priority workspaces found"])
                 ELSE [returned EXCEPT !.pc = "getUsers", !.wss = priorityWorkspaces]
  /\ UNCHANGED <<issyncing, procs, store, sync_metadata, now, calls, removed,
                 analysis, given>>

\* const users = await this.getUsers()
DiscoverOrganizationUsers ==
  /\ returned.op = "discoverPriorityWorkspaces" /\ returned.pc = "getUsers"
  /\ returned' = [returned EXCEPT !.pc = "getBoardsInWorkspace",
                                  !.users = given.users, !.wi = 1]
  /\ UNCHANGED <<issyncing, procs, store, sync_metadata, now, calls, removed,
                 analysis, given>>

\* const workspaceBoards = await this.getBoardsInWorkspace(workspace.id,
\* options), for one priority workspace; after the last one the structure
\* is returned.
DiscoverOrganizationBoards ==
  LET allBoards == returned.bds \o BoardsInWorkspace(given, returned.wss[returned.wi].id)
  IN
  /\ returned.op = "discoverPriorityWorkspaces" /\ returned.pc = "getBoardsInWorkspace"
  /\ returned' = IF returned.wi = Len(returned.wss)
                 THEN DiscoveryResult(returned,
                        DiscoveredStructure(returned.wss, returned.users, allBoards))
                 ELSE [returned EXCEPT !.bds = allBoards, !.wi = returned.wi + 1]
  /\ UNCHANGED <<issyncing, procs, store, sync_metadata, now, calls, removed,
                 analysis, given>>

\* A sequence without its element at position i.
RemoveAt(list, i) == SubSeq(list, 1, i - 1) \o SubSeq(list, i + 1, Len(list))

\* While the call waits for an answer, a user of the remote service adds,
\* deletes or changes one board, or adds or deletes one workspace.
RemoteChanges ==
  /\ returned.op = "discoverPriorityWorkspaces"
  /\ \E remote \in Organizations :
       /\ remote.includeArchived = given.includeArchived
       /\ remote.users = given.users
       /\ \/ /\ remote.boards = given.boards
             /\ \/ \E i \in DOMAIN given.workspaces :
                     RemoveAt(given.workspaces, i) = remote.workspaces
                \/ \E i \in DOMAIN remote.workspaces :
                     RemoveAt(remote.workspaces, i) = given.workspaces
          \/ /\ remote.workspaces = given.workspaces
             /\ \/ \E i \in DOMAIN given.boards : RemoveAt(given.boards, i) = remote.boards
                \/ \E i \in DOMAIN remote.boards : RemoveAt(remote.boards, i) = given.boards
                \/ /\ Len(remote.boards) = Len(given.boards)
                   /\ Cardinality({i \in DOMAIN given.boards :
                                     remote.boards[i] # given.boards[i]}) = 1
       /\ given' = remote
  /\ returned' = [returned EXCEPT !.disturbed = TRUE]
  /\ UNCHANGED <<issyncing, procs, store, sync_metadata, now, calls, removed, analysis>>

\* ------------------------------------------------- organizational queries
\* Store contents read by getOrganizationalStructure: boards.workspace_id is
\* NULL or a stored workspace, items_count is a number (saveBoards stores
\* board.items_count || 0) kept as a one-element set.
StoreContents ==
  UNION {
    [ workspaces : {ws},
      boards : UNION {[1..n -> [ workspace_id : ws \cup {NULL},
                                  state : {"active", "archived"},
                                  items_count : {{0}, {3}} ]] : n \in 0..MaxStoredBoards},
      users : SUBSET {"u1", "u2"} ] : ws \in SUBSET {"w1"} }

\* The healthMetrics of getOrganizationalStructure, copied from the one row of
\* getOrganizationOverview: FROM workspaces w LEFT JOIN boards b ON w.id =
\* b.workspace_id LEFT JOIN users u ON TRUE.  A board is in the join when its
\* workspace is stored, and once for every stored user (once without users),
\* so SUM(b.items_count) adds its items that many times; COUNT(DISTINCT ...)
\* counts it once.
healthMetrics(content) ==
  LET joined == SelectSeq(content.boards, LAMBDA b : b.workspace_id \in content.workspaces)
      copies == IF content.users = {} THEN 1 ELSE Cardinality(content.users)
  IN  [ totalWorkspaces |-> Cardinality(content.workspaces),
        totalBoards |-> Len(joined),
        activeBoards |-> Len(SelectSeq(joined, LAMBDA b : b.state = "active")),
        archivedBoards |-> Len(SelectSeq(joined, LAMBDA b : b.state = "archived")),
        totalItems |-> SumItems(joined) * copies ]

\* getOrganizationalStructure with its five queries issued and none answered.
StructureRead ==
  [ op |-> "reading", pending |-> Queries,
    result |-> [ workspaces |-> {}, boards |-> << >>, users |-> {},
                 healthMetrics |-> healthMetrics([workspaces |-> {}, boards |-> << >>,
                                                  users |-> {}]) ] ]

\* The structure so far, with the answer of query q on the store content as
\* it is now: getWorkspaces() and getBoards() return every stored row
\* (getBoards LEFT JOINs the workspace name), SELECT * FROM users every
\* user, getOrganizationOverview() the healthMetrics.
StructureAnswer(result, q, content) ==
  CASE q = "workspaces" -> [result EXCEPT !.workspaces = content.workspaces]
    [] q = "boards" -> [result EXCEPT !.boards = content.boards]
    [] q = "users" -> [result EXCEPT !.users = content.users]
    [] q = "overview" -> [result EXCEPT !.healthMetrics = healthMetrics(content)]
    [] OTHER -> result

\* await getOrganizationalStructure(): one of its queries is answered; with
\* the last answer the structure is returned.
AnswerStructureQuery ==
  /\ returned.op = "reading"
  /\ \E q \in returned.pending :
       returned' = [ op |-> IF returned.pending = {q} THEN "getOrganizationalStructure"
                            ELSE "reading",
                     pending |-> returned.pending \ {q},
                     result |-> StructureAnswer(returned.result, q, given) ]
  /\ UNCHANGED <<issyncing, procs, store, sync_metadata, now, calls, removed,
                 analysis, given>>

\* A statement of another caller is executed while the queries are being
\* answered: saveWorkspaces or saveUsers inserts the rows not yet stored,
\* saveBoards (INSERT ... ON CONFLICT (id) DO UPDATE) inserts boards and
\* overwrites workspace_id, state and items_count of boards already stored.
WriteBetweenQueries ==
  /\ returned.op = "reading"
  /\ \E content \in StoreContents :
       /\ content # given
       /\ \/ /\ given.workspaces \subseteq content.workspaces
             /\ content.boards = given.boards /\ content.users = given.users
          \/ /\ Len(content.boards) >= Len(given.boards)
             /\ content.workspaces = given.workspaces /\ content.users = given.users
          \/ /\ given.users \subseteq content.users
             /\ content.workspaces = given.workspaces /\ content.boards = given.boards
       /\ given' = content
  /\ UNCHANGED <<issyncing, procs, store, sync_metadata, now, calls, removed,
                 analysis, returned>>

Step(p) ==
  \/ priorityWorkspaceSync(p) \/ incrementalSync(p)
  \/ syncSpecificPriorityWorkspace(p) \/ smartSync(p)
  \/ refreshIfNeeded(p) \/ quickSync(p) \/ syncSpecificWorkspace(p)
  \/ SyncSpecificWorkspaceReads(p)
  \/ StartSync(p) \/ TestConnection(p) \/ Discover(p)
  \/ DiscoverUsers(p) \/ DiscoverBoards(p)
  \/ GetPriorityWorkspaces(p) \/ GetWorkspaces(p) \/ GetBoardsInWorkspace(p)
  \/ SaveWorkspaces(p) \/ SaveBoards(p) \/ DeleteColumnsStep(p) \/ InsertColumnsStep(p)
  \/ SaveUsers(p) \/ GetBoardConnections(p) \/ SaveBoardRelationship(p)
  \/ CompleteSync(p) \/ GetOrganizationalStructure(p) \/ FailSync(p)
  \/ GetCacheStatus(p)

\* await cleanup(), by whoever maintains the database: the old Sync Runs go
\* (the health_metrics table is not part of the mirror).
Cleanup ==
  /\ sync_metadata' = cleanup(sync_metadata)
  /\ UNCHANGED <<issyncing, procs, store, now, calls, removed, analysis, pure>>

Init ==
  /\ issyncing = FALSE
  /\ procs = [p \in Procs |-> Idle]
  /\ workspaces = {}
  /\ boards = << >>
  /\ columns = << >>
  /\ board_relationships = << >>
  /\ users = {}
  /\ sync_metadata = << >>
  /\ now = 0
  /\ calls = 0
  /\ removed = {}
  /\ hboards = << >>
  /\ report = NoReport
  /\ given = NoValue
  /\ returned = NoValue

\* Concurrent callers, the clock standing still.
Next == (\E p \in Procs : Step(p)) \/ Cleanup

Spec == Init /\ [][Next]_vars

\* One caller at a time, the clock running.
NextTime == Step(1) \/ Tick \/ Cleanup

SpecTime == Init /\ [][NextTime]_vars

\* One caller at a time, the remote data changing.
NextRemote == Step(1) \/ RemoveColumnsRemotely \/ Cleanup

SpecRemote == Init /\ [][NextRemote]_vars

\* One caller at a time that also checks the mirror, the clock running.
NextValidate ==
  \/ Step(1) \/ Tick \/ validateCacheIntegrity(1) \/ ValidateCacheIntegrityReturns(1)
  \/ Cleanup

SpecValidate == Init /\ [][NextValidate]_vars

\* The mirror empty and unused, one board handed to the analyzer.
InitBoardHealth ==
  /\ issyncing = FALSE /\ procs = [p \in Procs |-> Idle]
  /\ workspaces = {} /\ boards = << >> /\ columns = << >>
  /\ board_relationships = << >> /\ users = {} /\ sync_metadata = << >>
  /\ now = 0 /\ calls = 0 /\ removed = {}
  /\ hboards \in [1..1 -> BoardInputs]
  /\ report = NoReport
  /\ given = NoValue /\ returned = NoValue

SpecBoardHealth == InitBoardHealth /\ [][AnalyzeBoardHealth]_vars

\* The mirror empty and unused, up to MaxBoards boards handed to the analyzer.
InitWorkspaceHealth ==
  /\ issyncing = FALSE /\ procs = [p \in Procs |-> Idle]
  /\ workspaces = {} /\ boards = << >> /\ columns = << >>
  /\ board_relationships = << >> /\ users = {} /\ sync_metadata = << >>
  /\ now = 0 /\ calls = 0 /\ removed = {}
  /\ hboards \in UNION {[1..n -> WorkspaceBoardInputs] : n \in 0..MaxBoards}
  /\ report = NoReport
  /\ given = NoValue /\ returned = NoValue

SpecWorkspaceHealth == InitWorkspaceHealth /\ [][AnalyzeWorkspaceHealth]_vars

\* Concurrent callers that also call clearCache.
NextClear == (\E p \in Procs : Step(p) \/ clearCache(p)) \/ Cleanup

SpecClear == Init /\ [][NextClear]_vars

\* The mirror and the analyzer unused.
MirrorUnused ==
  /\ issyncing = FALSE /\ procs = [p \in Procs |-> Idle]
  /\ workspaces = {} /\ boards = << >> /\ columns = << >>
  /\ board_relationships = << >> /\ users = {} /\ sync_metadata = << >>
  /\ now = 0 /\ calls = 0 /\ removed = {}
  /\ hboards = << >> /\ report = NoReport

\* One response on the wire for the API client.
InitClient == MirrorUnused /\ given \in Responses /\ returned = NoValue

NextClient == Query \/ ProbeConnection

SpecClient == InitClient /\ [][NextClient]_vars

\* One remote organization for the API client to discover.
InitDiscovery ==
  MirrorUnused /\ given \in Organizations /\ returned = discoverOrganization

NextDiscovery ==
  \/ DiscoverOrganizationWorkspaces \/ DiscoverOrganizationUsers
  \/ DiscoverOrganizationBoards \/ RemoteChanges

SpecDiscovery == InitDiscovery /\ [][NextDiscovery]_vars

\* One store content and a getOrganizationalStructure that has begun.
InitStructure == MirrorUnused /\ given \in StoreContents /\ returned = StructureRead

NextStructure == AnswerStructureQuery \/ WriteBetweenQueries

SpecStructure == InitStructure /\ [][NextStructure]_vars

\* ---------------------------------------------------------------------
\* Properties of the sync orchestrator.

\* Caller p holds a Sync Run it created and has not yet left its handler.
InFlight(p) == procs[p].pc # "idle" /\ procs[p].syncId # 0

\* In this step caller p leaves the handler it was running.
Ends(p) ==
  /\ procs[p].pc \notin {"idle", "getCacheStatus", "syncSpecificWorkspace"}
  /\ procs'[p].pc = "idle"

\* In this step caller p invokes fullSync or incrementalSync (directly or as
\* the dispatch of smartSync, refreshIfNeeded or quickSync) or syncScope with
\* a permitted scope (directly or through syncSpecificWorkspace).
InvokesSync(p) ==
  \/ /\ procs[p].pc = "idle"
     /\ procs'[p].call # procs[p].call
     /\ \/ procs'[p].op \in {"full", "incr"}
        \/ procs'[p].op = "scoped" /\ procs'[p].scope \in getPriorityWorkspaceNames
  \/ /\ procs[p].pc = "getCacheStatus"
     /\ procs'[p].op \in {"full", "incr"}
  \/ /\ procs[p].pc = "syncSpecificWorkspace"
     /\ procs'[p].op = "scoped"

\* C1 as stated: at most one sync is in flight at any time, under every
\* interleaving of fullSync, incrementalSync and syncScope.
C1_AtMostOneSyncInFlight ==
  Cardinality({p \in Procs : InFlight(p)}) <= 1

\* C2: a sync invoked while isSyncing is true raises 'Sync already in
\* progress' in the same step, creates no Sync Run, writes nothing to the
\* mirror, and leaves isSyncing true and every Sync Run record as it was.
C2_RejectedWhileSyncing ==
  [][\A p \in Procs :
       (issyncing /\ InvokesSync(p)) =>
         /\ procs'[p].pc = "idle"
         /\ procs'[p].res = "error"
         /\ procs'[p].error = "Sync already in progress"
         /\ issyncing'
         /\ UNCHANGED <<store, sync_metadata>>]_vars

\* C2's case: a caller was turned away while another one's run is running.
C2_Witness ==
  \E p, q \in Procs :
    /\ procs[p].pc = "idle" /\ procs[p].error = "Sync already in progress"
    /\ procs[p].op \in {"full", "incr", "scoped"}
    /\ issyncing /\ InFlight(q)
    /\ sync_metadata[procs[q].syncId].status = "running"

\* C3 as stated: every fullSync or incrementalSync that passed the
\* in-progress check leaves isSyncing false when it ends, however it ends.
C3_FlagClearedAtEnd ==
  [][\A p \in Procs :
       (Ends(p) /\ procs[p].op \in {"full", "incr"}) => ~issyncing']_vars

\* C4 as stated: a Sync Run is created running, no completed run changes
\* again, and the run of an invocation that ends is completed or failed.
C4_RunStatusChangesOnce ==
  [][/\ \A x \in DOMAIN sync_metadata' \ DOMAIN sync_metadata :
          sync_metadata'[x].status = "running"
     /\ \A x \in DOMAIN sync_metadata :
          sync_metadata[x].status # "running" => sync_metadata'[x] = sync_metadata[x]
     /\ \A p \in Procs :
          (Ends(p) /\ procs[p].syncId # 0) =>
            sync_metadata'[procs[p].syncId].status \in {"completed", "failed"}]_vars

\* C5 as stated: when the connectivity check of a full sync fails, the sync
\* raises, its Sync Run ends failed, and the invocation has written nothing.
C5_ConnectivityFailure ==
  [][\A p \in Procs :
       (Ends(p) /\ procs[p].thrown \in {"Monday.com API connection failed",
                                        "Database connection failed"}) =>
         /\ procs'[p].res = "error"
         /\ sync_metadata'[procs[p].syncId].status = "failed"
         /\ ~procs[p].wrote]_vars

\* C6 as stated: when saveUsers throws in a full sync, the exception reaches
\* the caller, the Sync Run is failed with its message, and the workspaces,
\* boards and columns persisted earlier in the run are still in the mirror.
C6_SaveUsersFailure ==
  [][\A p \in Procs :
       (Ends(p) /\ procs[p].thrown = "saveUsers: store error") =>
         /\ procs'[p].res = "error"
         /\ procs'[p].error = "saveUsers: store error"
         /\ sync_metadata'[procs[p].syncId].status = "failed"
         /\ sync_metadata'[procs[p].syncId].error_message = "saveUsers: store error"
         /\ \A x \in DOMAIN procs[p].wss : procs[p].wss[x].id \in workspaces'
         /\ \A x \in DOMAIN procs[p].bds :
              /\ procs[p].bds[x].id \in DOMAIN boards'
              /\ StoredColumns(columns', procs[p].bds[x].id)
                   = Range(procs[p].bds[x].columns)]_vars

\* The ids of a list of boards.
BoardIds(bds) == {bds[x].id : x \in DOMAIN bds}

\* The rows of a relationship table that carry a key.
RowsWithKey(tbl, key) == {x \in DOMAIN tbl : RelKey(tbl[x]) = key}

\* No two rows of a relationship table carry the same key.
KeysUnique(tbl) == \A x, y \in DOMAIN tbl : RelKey(tbl[x]) = RelKey(tbl[y]) => x = y

\* table old is the beginning of table new: no row was dropped or changed.
Extends(new, old) == Len(old) <= Len(new) /\ SubSeq(new, 1, Len(old)) = old

\* The keys of the edges between the boards of a default full sync, as the
\* remote data gives them.
RemoteEdgeKeys ==
  LET bds == discoverPriorityWorkspaces(FALSE).boards
      inside(x) == {c \in Range(getBoardConnections(bds[x].id)) :
                      targetBoardExists(bds, c.targetBoard)}
  IN  UNION { {RelKey(RelationshipRow(bds[x].id, c)) : c \in inside(x)} :
              x \in DOMAIN bds }

\* In this step caller p returns from a full sync that began on the mirror
\* a completed full sync had just left.
RepeatedFullSyncReturns(p) ==
  /\ Ends(p) /\ procs[p].op = "full" /\ procs[p].snap.taken
  /\ procs'[p].res = "ok"

\* C7 as stated: a full sync run right after a completed full sync, the
\* remote data unchanged, leaves the same workspaces, boards, columns and
\* relationships in the mirror.
C7_SecondSyncChangesNothing ==
  [][\A p \in Procs :
       RepeatedFullSyncReturns(p) =>
         /\ workspaces' = procs[p].snap.workspaces
         /\ DOMAIN boards' = procs[p].snap.boards
         /\ columns' = procs[p].snap.columns
         /\ board_relationships' = procs[p].snap.board_relationships]_vars

\* C7, amended: the second full sync leaves the same workspaces, boards and
\* columns, drops and duplicates no relationship, and adds none when the
\* mirror already held every edge of the remote data; it may add the edges
\* whose discovery failed, unnoticed, during the first one.
C7_SecondSyncIdempotent ==
  [][\A p \in Procs :
       RepeatedFullSyncReturns(p) =>
         /\ workspaces' = procs[p].snap.workspaces
         /\ DOMAIN boards' = procs[p].snap.boards
         /\ columns' = procs[p].snap.columns
         /\ Extends(board_relationships', procs[p].snap.board_relationships)
         /\ KeysUnique(board_relationships')
         /\ (RemoteEdgeKeys \subseteq
               {RelKey(procs[p].snap.board_relationships[x]) :
                  x \in DOMAIN procs[p].snap.board_relationships})
              => board_relationships' = procs[p].snap.board_relationships]_vars

\* C7's case: a second full sync in a row is about to return, having gone
\* through discovery over a mirror that already holds every edge.
C7_Witness ==
  \E p \in Procs :
    /\ procs[p].pc = "getOrganizationalStructure" /\ procs[p].op = "full"
    /\ procs[p].snap.taken /\ procs[p].found > 0
    /\ RemoteEdgeKeys \subseteq
         {RelKey(procs[p].snap.board_relationships[x]) :
            x \in DOMAIN procs[p].snap.board_relationships}

\* C8: discovery persists no connection whose target is outside the board
\* set of the sync, and a connection inside it is stored as exactly one row
\* per (source, target, type, column) key, however often it is discovered.
C8_DiscoveryPersistsInsideOnce ==
  [][/\ Extends(board_relationships', board_relationships)
     /\ \A x \in DOMAIN board_relationships' \ DOMAIN board_relationships :
          \E p \in Procs :
            /\ procs[p].pc = "saveBoardRelationship"
            /\ board_relationships'[x].source_board_id = procs[p].bds[procs[p].j].id
            /\ board_relationships'[x].target_board_id \in BoardIds(procs[p].bds)
     /\ \A p \in Procs :
          (procs[p].pc = "saveBoardRelationship" /\ procs'[p].found = procs[p].found + 1) =>
            Cardinality(RowsWithKey(board_relationships',
              RelKey(RelationshipRow(procs[p].bds[procs[p].j].id,
                                     procs[p].conns[procs[p].k])))) = 1
     /\ KeysUnique(board_relationships')]_vars

\* C8's case: a sync that skipped a connection to a board outside its set is
\* about to save a connection whose edge is already stored.
C8_Witness ==
  \E p \in Procs :
    /\ procs[p].pc = "saveBoardRelationship"
    /\ \E x \in 1..(procs[p].k - 1) :
         procs[p].conns[x].targetBoard \notin BoardIds(procs[p].bds)
    /\ RowsWithKey(board_relationships,
         RelKey(RelationshipRow(procs[p].bds[procs[p].j].id,
                                procs[p].conns[procs[p].k]))) # {}

\* C9: in every state of the mirror, the source and the target of every
\* stored relationship are stored boards.
C9_EndpointsAreStoredBoards ==
  \A x \in DOMAIN board_relationships :
    /\ board_relationships[x].source_board_id \in DOMAIN boards
    /\ board_relationships[x].target_board_id \in DOMAIN boards

\* C9's case: relationships are stored and a later sync, which met a
\* connection without a target board and skipped it, is storing another.
C9_Witness ==
  /\ Len(board_relationships) >= 2
  /\ \E p \in Procs :
       /\ procs[p].call > 1 /\ procs[p].pc = "saveBoardRelationship"
       /\ \E x \in 1..(procs[p].k - 1) : procs[p].conns[x].targetBoard = NULL

\* In this step smartSync, run by caller p, picks what to do.
SmartSyncPicks(p) ==
  /\ procs[p].entry = "smartSync"
  /\ procs[p].pc = "getCacheStatus" /\ procs'[p].pc # "getCacheStatus"

\* No Sync Run has completed.
NoSyncCompleted == \A x \in DOMAIN sync_metadata : sync_metadata[x].status # "completed"

\* The time the latest completed Sync Run completed at.
LastCompletedAt ==
  Max(UNION {sync_metadata[x].completed_at :
               x \in {y \in DOMAIN sync_metadata : sync_metadata[y].status = "completed"}})

\* Hours since the last successful sync, infinite if none.
HoursSinceLastSuccessfulSync ==
  IF NoSyncCompleted THEN Infinity ELSE now - LastCompletedAt

\* C10 as stated: smartSync picks from cacheAge alone: above the long bound
\* a full sync, between the short and the long bound an incremental sync,
\* and below the short bound no remote call at all.  It is stated for the
\* picks whose cacheAge is the hours since the last successful sync.
C10_StrategyFromAgeAlone ==
  [][\A p \in Procs :
       /\ (SmartSyncPicks(p) /\ procs'[p].seenAge = HoursSinceLastSuccessfulSync) =>
            /\ procs'[p].seenAge > veryOldHours => procs'[p].op = "full"
            /\ (procs'[p].seenAge > defaultTtlHours /\ procs'[p].seenAge <= veryOldHours)
                 => procs'[p].op = "incr"
            /\ procs'[p].seenAge < defaultTtlHours => procs'[p].op = "cached"
       /\ procs'[p].op = "cached" => ~procs'[p].remote]_vars

\* C10, amended: an unhealthy mirror gets a full sync whatever its cacheAge;
\* a healthy one gets a full sync above the long bound, an incremental sync
\* between the bounds, and no remote call at all at or below the short one.
C10_StrategyFromHealthAndAge ==
  [][\A p \in Procs :
       /\ SmartSyncPicks(p) =>
            /\ ~procs'[p].seenHealthy => procs'[p].op = "full"
            /\ procs'[p].seenAge > veryOldHours => procs'[p].op = "full"
            /\ (procs'[p].seenAge > defaultTtlHours /\ procs'[p].seenAge <= veryOldHours)
                 => procs'[p].op = "incr"
            /\ (procs'[p].seenHealthy /\ procs'[p].seenAge <= defaultTtlHours)
                 => procs'[p].op = "cached"
       /\ procs'[p].op = "cached" => ~procs'[p].remote]_vars

\* C10's case: smartSync found a healthy mirror older than the long bound and
\* its full sync is calling the remote service.
C10_Witness ==
  \E p \in Procs :
    /\ procs[p].entry = "smartSync" /\ procs[p].op = "full" /\ procs[p].remote
    /\ procs[p].seenHealthy /\ procs[p].seenAge > veryOldHours

\* In this step caller p moves and is, before or after it, in the branch of
\* smartSync that returns the stored mirror.
CachedBranchStep(p) ==
  /\ procs'[p] # procs[p]
  /\ \/ procs[p].op = "cached" /\ procs[p].pc # "idle"
     \/ procs'[p].op = "cached" /\ procs[p].pc = "getCacheStatus"

\* C11: smartSync runs the full sync when the status it read is unhealthy
\* or older than the long bound, else the incremental sync when it is older
\* than the short bound, else it returns the stored mirror, and that branch
\* writes nothing to the mirror and starts no Sync Run.
C11_SmartSyncDispatch ==
  [][\A p \in Procs :
       /\ SmartSyncPicks(p) =>
            procs'[p].op =
              IF ~procs'[p].seenHealthy \/ procs'[p].seenAge > veryOldHours THEN "full"
              ELSE IF procs'[p].seenAge > defaultTtlHours THEN "incr"
              ELSE "cached"
       /\ CachedBranchStep(p) =>
            /\ UNCHANGED <<store, sync_metadata, issyncing>>
            /\ procs'[p].syncId = 0
            /\ procs'[p].pc = "idle" => procs'[p].res \in {"ok", "error"}]_vars

\* C11's case: smartSync found a healthy mirror aged between the two bounds
\* and its incremental sync holds a Sync Run.
C11_Witness ==
  \E p \in Procs :
    /\ procs[p].entry = "smartSync" /\ procs[p].op = "incr" /\ procs[p].syncId # 0
    /\ procs[p].seenHealthy
    /\ procs[p].seenAge > defaultTtlHours /\ procs[p].seenAge <= veryOldHours

\* In this step caller p gets the status getCacheStatus resolves to.
StatusRead(p) == procs[p].pc = "getCacheStatus" /\ procs'[p].pc # "getCacheStatus"

\* The status caller p got tells the mirror as it is stored.
StatusTellsStore(p) ==
  /\ procs'[p].seenHealthy = (workspaces # {} /\ DOMAIN boards # {})
  /\ procs'[p].seenWorkspaces = Cardinality(workspaces)
  /\ procs'[p].seenBoards = Cardinality(DOMAIN boards)

\* C12 as stated: getCacheStatus calls no remote API and writes nothing,
\* isHealthy is true exactly when a workspace and a board are stored, and
\* the totals are the numbers of stored workspaces and boards.
C12_StatusTellsStore ==
  [][\A p \in Procs :
       StatusRead(p) =>
         /\ UNCHANGED <<store, sync_metadata>>
         /\ ~procs'[p].remote
         /\ StatusTellsStore(p)]_vars

\* No workspace or board was written since the queries of caller p's
\* getOrganizationalStructure that are answered were answered.
ReadUndisturbed(p) ==
  /\ "workspaces" \notin procs[p].pending => procs[p].answers.workspaces = workspaces
  /\ "boards" \notin procs[p].pending => DOMAIN procs[p].answers.boards = DOMAIN boards

\* C12, amended: no step of getCacheStatus calls the remote API or writes;
\* when its read of the mirror succeeds and no other caller wrote between
\* its queries, the status tells the store; when the read fails,
\* getCacheStatus reports an unhealthy mirror with both totals 0 and an
\* infinite cacheAge, whatever is stored.
C12_StatusTellsStoreOrFailure ==
  [][\A p \in Procs :
       /\ (procs[p].pc = "getCacheStatus" /\ procs'[p] # procs[p]) =>
            UNCHANGED <<store, sync_metadata>> /\ ~procs'[p].remote
       /\ StatusRead(p) =>
            /\ UNCHANGED <<store, sync_metadata>>
            /\ ~procs'[p].remote
            /\ \/ ReadUndisturbed(p) => StatusTellsStore(p)
               \/ /\ ~procs'[p].seenHealthy /\ procs'[p].seenAge = Infinity
                  /\ procs'[p].seenWorkspaces = 0 /\ procs'[p].seenBoards = 0]_vars

\* C12's case: a status read of a mirror that holds workspaces and boards
\* came back healthy with their numbers.
C12_Witness ==
  \E p \in Procs :
    /\ procs[p].entry = "smartSync" /\ procs[p].pc = "getOrganizationalStructure" /\ procs[p].op = "cached"
    /\ procs[p].seenHealthy
    /\ procs[p].seenWorkspaces = Cardinality(workspaces) /\ procs[p].seenWorkspaces > 0
    /\ procs[p].seenBoards = Cardinality(DOMAIN boards) /\ procs[p].seenBoards > 0

\* C13 as stated: as long as no sync has completed, getCacheStatus reports
\* an infinite cacheAge, hence needsRefresh.
C13_InfiniteAgeBeforeFirstSync ==
  [][\A p \in Procs :
       (StatusRead(p) /\ NoSyncCompleted) =>
         /\ procs'[p].seenAge = Infinity
         /\ procs'[p].seenAge > defaultTtlHours]_vars

\* No caller is inside a handler.
AllIdle == \A p \in Procs : procs[p].pc = "idle"

\* C14 as stated: once a sync has completed, the cacheAge getCacheStatus
\* reports is the time since the latest completed Sync Run: it grows with
\* the clock, a failed sync does not reset it, every completed one does.
C14_AgeSinceLastCompletedRun ==
  (AllIdle /\ ~NoSyncCompleted) =>
    getCacheStatus(StoredStructure(workspaces, boards, now), now).cacheAge = now - LastCompletedAt

\* In this step the sync pass of caller p is done persisting a board: its
\* saveColumns has returned.
BoardPersisted(p) ==
  /\ procs[p].pc \in {"saveBoards", "insertColumns"}
  /\ procs'[p] # procs[p]
  /\ procs'[p].pc \notin {"deleteColumns", "failSync"}

\* C15 as stated: once a sync pass has persisted a board, the columns stored
\* for it are exactly the columns the remote returned for it in that pass,
\* the empty column set included.
C15_ColumnsReplaced ==
  [][\A p \in Procs :
       BoardPersisted(p) =>
         StoredColumns(columns', procs[p].bds[procs[p].i].id)
           = Range(procs[p].bds[procs[p].i].columns)]_vars

\* In this step caller p invokes syncScope with a scope outside the allow-list.
InvokesForbiddenScope(p) ==
  /\ procs[p].pc = "idle" /\ procs'[p].call # procs[p].call
  /\ procs'[p].op = "scoped" /\ procs'[p].scope \notin getPriorityWorkspaceNames

\* In this step the scoped sync of caller p finds that the remote service
\* has no workspace of the name.
ScopeNotFound(p) ==
  /\ procs[p].pc = "getWorkspaces"
  /\ procs'[p].thrown = "Priority workspace not found in Monday.com"

\* A scope outside the allow-list is refused in the step that invokes the
\* sync, with nothing written and no Sync Run created.
ForbiddenScopeRefused(p) ==
  InvokesForbiddenScope(p) =>
    /\ procs'[p].pc = "idle" /\ procs'[p].res = "error"
    /\ procs'[p].error = "not a priority workspace"
    /\ UNCHANGED <<store, sync_metadata, issyncing>>

\* C16 as stated: syncScope raises an error for a scope outside the
\* allow-list and for a scope the remote service does not have, both before
\* any remote call and before any write to the mirror.
C16_ScopeErrorsBeforeRemoteCall ==
  [][\A p \in Procs :
       /\ ForbiddenScopeRefused(p)
       /\ ScopeNotFound(p) => (~procs'[p].remote /\ ~procs'[p].wrote)]_vars

\* C16, amended: a scope outside the allow-list is refused before any remote
\* call and any write; a scope the remote service does not have is refused
\* after the getWorkspaces call, with a Sync Run created and nothing written
\* to the mirror, and the caller gets the error, or failSync's when that fails.
C16_ScopeErrors ==
  [][\A p \in Procs :
       /\ ForbiddenScopeRefused(p)
       /\ ScopeNotFound(p) =>
            /\ procs'[p].remote /\ ~procs'[p].wrote
            /\ procs'[p].syncId \in DOMAIN sync_metadata
            /\ store' = store
       /\ (Ends(p) /\ procs[p].thrown = "Priority workspace not found in Monday.com") =>
            /\ procs'[p].res = "error"
            /\ procs'[p].error \in {"Priority workspace not found in Monday.com",
                                    "failSync: store error"}
            /\ store' = store]_vars

\* C16's case: one caller was refused a scope outside the allow-list, and
\* another one's permitted scope was not found remotely.
C16_Witness ==
  \E p, q \in Procs :
    /\ procs[p].pc = "idle" /\ procs[p].error = "not a priority workspace"
    /\ procs[q].pc = "idle" /\ procs[q].op = "scoped"
    /\ procs[q].scope \in getPriorityWorkspaceNames
    /\ procs[q].error = "Priority workspace not found in Monday.com"

\* In this step validateCacheIntegrity returns to caller p.
ValidationReturns(p) == procs[p].pc = "validateCacheIntegrity" /\ procs'[p].pc = "idle"

\* Stored workspaces no stored board refers to.
WorkspacesWithoutBoards ==
  {w \in workspaces : \A b \in DOMAIN boards : boards[b].workspace_id # w}

\* C17 as stated: validateIntegrity does not raise and does not write; it
\* returns an issue whenever a board has no workspace reference, whenever a
\* stored workspace has no board, and whenever the mirror is older than
\* twice the TTL (the issue of a failed store read standing for any of
\* them, and the issue for a workspace without boards being one that is not
\* the issue of another condition); isValid is true exactly when the issue
\* list is empty.
C17_IntegrityIssues ==
  [][\A p \in Procs :
       ValidationReturns(p) =>
         /\ procs'[p].res = "ok"
         /\ UNCHANGED <<store, sync_metadata>>
         /\ (\E b \in DOMAIN boards : boards[b].workspace_id = NULL)
              => procs'[p].issues \cap {"boards without workspace references",
                                         "Cache validation failed"} # {}
         /\ WorkspacesWithoutBoards # {}
              => procs'[p].issues \ {"Missing priority workspaces",
                                      "boards without workspace references",
                                      "Cache is very old"} # {}
         /\ getCacheStatus(StoredStructure(workspaces, boards, now), now).cacheAge > defaultTtlHours * 2
              => procs'[p].issues \cap {"Cache is very old",
                                         "Cache validation failed"} # {}
         /\ procs'[p].isValid = (procs'[p].issues = {})]_vars

\* In this step caller p returns from a full sync with default options that
\* was the first call on the empty store.
FirstFullSyncReturns(p) ==
  /\ procs[p].pc = "getOrganizationalStructure" /\ procs[p].op = "full"
  /\ procs[p].call = 1 /\ ~procs[p].includeArchived
  /\ procs'[p].pc = "idle" /\ procs'[p].res = "ok"

\* The connections of the boards of a default full sync whose target is one
\* of these boards: the saveBoardRelationship calls of a discovery in which
\* nothing fails.
InsideConnections ==
  LET bds == discoverPriorityWorkspaces(FALSE).boards
  IN  Flatten([x \in DOMAIN bds |->
                 SelectSeq(getBoardConnections(bds[x].id),
                           LAMBDA c : targetBoardExists(bds, c.targetBoard))])

\* The unique keys of the stored relationship rows.
StoredEdgeKeys(tbl) == {RelKey(tbl[x]) : x \in DOMAIN tbl}

\* C18 as stated, on the remote data of the model (two priority workspaces
\* holding active and archived boards): a fullSync with default options from
\* the empty store ends with a row for every workspace, a row for every board,
\* archived ones included, one relationship row per remote edge, a completed
\* Sync Run whose created count is workspaces + boards, and a healthy status.
C18_FullSyncScenario ==
  [][\A p \in Procs :
       FirstFullSyncReturns(p) =>
         /\ workspaces' = BoardIds(getPriorityWorkspaces)
         /\ DOMAIN boards' = BoardIds(discoverPriorityWorkspaces(TRUE).boards)
         /\ StoredEdgeKeys(board_relationships') = RemoteEdgeKeys
         /\ KeysUnique(board_relationships')
         /\ sync_metadata'[procs[p].syncId].status = "completed"
         /\ sync_metadata'[procs[p].syncId].created =
              Cardinality(workspaces') + Cardinality(DOMAIN boards')
         /\ getCacheStatus(StoredStructure(workspaces', boards', now'), now').isHealthy]_vars

\* C18, amended: the fullSync stores the priority workspaces and their active
\* boards only, at most one relationship row per remote edge and exactly one
\* when no discovery step failed, and its completed Sync Run counts the
\* boards alone as created and workspaces + boards + users as processed.
C18_FullSyncStoresActiveBoards ==
  [][\A p \in Procs :
       FirstFullSyncReturns(p) =>
         /\ workspaces' = BoardIds(getPriorityWorkspaces)
         /\ DOMAIN boards' = BoardIds(discoverPriorityWorkspaces(FALSE).boards)
         /\ \A b \in DOMAIN boards' : boards'[b].state = "active"
         /\ StoredEdgeKeys(board_relationships') \subseteq RemoteEdgeKeys
         /\ KeysUnique(board_relationships')
         /\ procs[p].found = Len(InsideConnections)
              => StoredEdgeKeys(board_relationships') = RemoteEdgeKeys
         /\ sync_metadata'[procs[p].syncId].status = "completed"
         /\ sync_metadata'[procs[p].syncId].created = Cardinality(DOMAIN boards')
         /\ sync_metadata'[procs[p].syncId].processed =
              Cardinality(workspaces') + Cardinality(DOMAIN boards') + Len(getUsers)
         /\ getCacheStatus(StoredStructure(workspaces', boards', now'), now').isHealthy]_vars

\* C18's case: the first call, a default fullSync on the empty store, has
\* stored every remote edge, completed its Sync Run and is about to return.
C18_Witness ==
  \E p \in Procs :
    /\ procs[p].pc = "getOrganizationalStructure" /\ procs[p].op = "full"
    /\ procs[p].call = 1 /\ ~procs[p].includeArchived
    /\ procs[p].found = Len(InsideConnections)
    /\ sync_metadata[procs[p].syncId].status = "completed"

\* The score the weighted formula gives: 50 x healthy-ratio + 30 x
\* active-ratio + 20 x utilization-ratio, utilization capped at 1, rounded.
WeightedScore(r) ==
  LET workspaceBoards == SelectSeq(hboards, LAMBDA b : b.workspace = r.workspace)
      activeBoards == Len(SelectSeq(workspaceBoards, LAMBDA b : b.state = "active"))
      items == SumItems(workspaceBoards)
      cappedItems == IF items > r.totalBoards * 10 THEN r.totalBoards * 10 ELSE items
  IN  Round(r.boardsHealthy * 50 * 10 + activeBoards * 30 * 10 + cappedItems * 20,
            r.totalBoards * 10)

\* C19 as stated: the overallScore analyzeWorkspaceHealth returns is an
\* integer in 0..100, equal to the rounded value of 50 x healthy-ratio +
\* 30 x active-ratio + 20 x utilization-ratio, and 0 for a workspace with
\* no boards.
C19_ScoreWithinHundred ==
  report.kind = "workspace" =>
    /\ report.overallScore \in 0..100
    /\ report.totalBoards = 0 => report.overallScore = 0
    /\ report.totalBoards > 0 => report.overallScore = WeightedScore(report)

\* The status analyzeBoardHealth gives the reported board when its item
\* count is taken out of the picture.
StatusWithoutItemCheck ==
  analyzeBoardHealth([report.board EXCEPT !.items_count = {underutilizedItemsThreshold}],
                     AnalysisNow).status

\* The reported board is younger than the minimum age for analysis.
TooNew == BoardAge(report.board, AnalysisNow) < minBoardAgeForAnalysis * HoursPerDay

\* Hours since the reported board was updated.
HoursWithoutUpdate == BoardAge(report.board, AnalysisNow)

\* C20 as stated: a board younger than the minimum age is healthy whatever
\* its item count and lifecycle state; an older board is abandoned after more
\* than 2N days without update and inactive after more than N days; the
\* item-count check only turns healthy into warning.
C20_StatusByAge ==
  report.kind = "board" =>
    /\ TooNew => report.status = "healthy"
    /\ ~TooNew /\ HoursWithoutUpdate > 2 * inactiveDaysThreshold * HoursPerDay
         => report.status = "abandoned"
    /\ (/\ ~TooNew
        /\ HoursWithoutUpdate > inactiveDaysThreshold * HoursPerDay
        /\ HoursWithoutUpdate <= 2 * inactiveDaysThreshold * HoursPerDay)
         => report.status = "inactive"
    /\ \/ report.status = StatusWithoutItemCheck
       \/ StatusWithoutItemCheck = "healthy" /\ report.status = "warning"

\* C20, amended: the thresholds on the days without update decide the status
\* of older active boards; an older archived or deleted board is abandoned
\* whatever its last update.
C20_StatusByAgeAndState ==
  report.kind = "board" =>
    /\ TooNew => report.status = "healthy"
    /\ ~TooNew /\ report.board.state \in {"archived", "deleted"}
         => report.status = "abandoned"
    /\ ~TooNew /\ report.board.state = "active" =>
         /\ HoursWithoutUpdate > 2 * inactiveDaysThreshold * HoursPerDay
              => report.status = "abandoned"
         /\ (/\ HoursWithoutUpdate > inactiveDaysThreshold * HoursPerDay
             /\ HoursWithoutUpdate <= 2 * inactiveDaysThreshold * HoursPerDay)
              => report.status = "inactive"
         /\ HoursWithoutUpdate <= inactiveDaysThreshold * HoursPerDay
              => report.status \in {"healthy", "warning"}
    /\ \/ report.status = StatusWithoutItemCheck
       \/ StatusWithoutItemCheck = "healthy" /\ report.status = "warning"

\* C20's case: an archived board without items, younger than the minimum
\* age, was analysed and reported healthy.
C20_Witness ==
  /\ report.kind = "board" /\ TooNew
  /\ report.board.state = "archived" /\ report.itemsCount = 0
  /\ report.board.updated_at # {}
  /\ report.status = "healthy"

\* Caller p is inside syncPriorityBoardRelationships.
InDiscovery(p) == procs[p].pc \in {"getBoardConnections", "saveBoardRelationship"}

\* The connections of the parseable columns of a remote board, whatever
\* other columns the board has.
ParseableConnections(boardId) ==
  UNION { Range(ColumnConnections(RemoteColumns[c])) :
            c \in {c \in Range(RemoteBoard(boardId).columns) :
                     JSONParse(RemoteColumns[c].settings_str).ok} }

\* C21: no step of relationship discovery raises out of it: after a step on
\* board j, failed or not, the caller is still on board j, on board j + 1, or
\* past the last board and about to complete its Sync Run; the connections
\* read for a board are those of all its parseable columns, a bad blob on
\* another column notwithstanding.
C21_DiscoveryFaultIsolated ==
  [][\A p \in Procs :
       InDiscovery(p) =>
         /\ procs'[p].thrown = NULL /\ procs'[p].res = "none"
         /\ \/ /\ InDiscovery(p)'
               /\ procs'[p].j \in {procs[p].j, procs[p].j + 1}
            \/ /\ procs'[p].pc = "completeSync"
               /\ procs[p].j = Len(procs[p].bds)
         /\ procs'[p].pc = "saveBoardRelationship" =>
              Range(procs'[p].conns) = ParseableConnections(procs'[p].bds[procs'[p].j].id)]_vars

\* C21's case: a full sync whose discovery lost connections to a failure
\* has completed its Sync Run all the same.
C21_Witness ==
  \E p \in Procs :
    /\ procs[p].pc = "getOrganizationalStructure" /\ procs[p].op = "full"
    /\ ~procs[p].includeArchived
    /\ procs[p].found < Len(InsideConnections)
    /\ sync_metadata[procs[p].syncId].status = "completed"

\* Caller p is inside incrementalSync.
InIncrementalSync(p) == procs[p].op = "incr" /\ procs[p].pc # "idle"

\* The ids of the remote boards in state active.
ActiveRemoteBoardIds ==
  {RemoteBoards[x].id : x \in {x \in DOMAIN RemoteBoards : RemoteBoards[x].state = "active"}}

\* The board rows a step wrote.
BoardsWritten ==
  {b \in DOMAIN boards' : b \notin DOMAIN boards \/ boards'[b] # boards[b]}

\* The boards whose column rows a step inserted or deleted.
ColumnBoardsWritten ==
  {columns'[c] : c \in {c \in DOMAIN columns' : c \notin DOMAIN columns \/ columns'[c] # columns[c]}}
    \cup {columns[c] : c \in DOMAIN columns \ DOMAIN columns'}

\* The active boards of the priority workspaces: what an incrementalSync
\* that succeeds has persisted.
IncrementalBoardIds == BoardIds(discoverPriorityWorkspaces(FALSE).boards)

\* C22: every step of an incrementalSync writes board and column rows of
\* active boards only, writes no workspace, user or relationship and makes
\* no connectivity probe; when it completes its Sync Run every active board
\* of the priority workspaces is stored and the run carries created = 0 and
\* updated = processed = the number of these boards.
C22_IncrementalSyncFrame ==
  [][\A p \in Procs :
       InIncrementalSync(p) =>
         /\ BoardsWritten \subseteq ActiveRemoteBoardIds
         /\ ColumnBoardsWritten \subseteq ActiveRemoteBoardIds
         /\ UNCHANGED <<workspaces, users, board_relationships>>
         /\ procs'[p].pc \notin {"testConnection", "discoverPriorityWorkspaces",
                                  "saveWorkspaces", "saveUsers", "getBoardConnections",
                                  "saveBoardRelationship"}
         /\ (procs[p].pc = "completeSync" /\ procs'[p].pc = "getOrganizationalStructure") =>
              /\ IncrementalBoardIds \subseteq DOMAIN boards'
              /\ sync_metadata'[procs[p].syncId].status = "completed"
              /\ sync_metadata'[procs[p].syncId].created = 0
              /\ sync_metadata'[procs[p].syncId].updated = Cardinality(IncrementalBoardIds)
              /\ sync_metadata'[procs[p].syncId].processed = Cardinality(IncrementalBoardIds)]_vars

\* C22's case: an incrementalSync has persisted boards, completed its Sync
\* Run and is about to return.
C22_Witness ==
  \E p \in Procs :
    /\ procs[p].op = "incr" /\ procs[p].pc = "getOrganizationalStructure"
    /\ procs[p].n > 0
    /\ sync_metadata[procs[p].syncId].status = "completed"

\* Caller p is inside syncSpecificPriorityWorkspace.
InScopedSync(p) == procs[p].op = "scoped" /\ procs[p].pc # "idle"

\* The remote identities a scope name resolves to.
ScopeWorkspaceIds(scope) ==
  {w.id : w \in {w \in Range(RemoteWorkspaces) : w.name = scope}}

\* The ids of the boards the remote returns for a scope:
\* getBoardsInWorkspace(targetWorkspace.id, {includeArchived: the configured
\* flag, maxBoards}).
ScopeBoardIds(scope) ==
  UNION {BoardIds(getBoardsInWorkspace(w, boardFiltersIncludeArchived)) :
           w \in ScopeWorkspaceIds(scope)}

\* C23: every step of a syncScope(scope) writes only the workspace the scope
\* resolves to and board and column rows of remote boards of that workspace,
\* and leaves users and relationships alone; when it returns normally the
\* workspace and the boards the remote returned for it are stored and its
\* Sync Run, which carries the scope, is completed.
C23_ScopedSyncFrame ==
  [][\A p \in Procs :
       InScopedSync(p) =>
         /\ workspaces \subseteq workspaces'
         /\ workspaces' \ workspaces \subseteq ScopeWorkspaceIds(procs[p].scope)
         /\ BoardsWritten \subseteq ScopeBoardIds(procs[p].scope)
         /\ ColumnBoardsWritten \subseteq ScopeBoardIds(procs[p].scope)
         /\ \A b \in DOMAIN boards \ ScopeBoardIds(procs[p].scope) :
              b \in DOMAIN boards' /\ boards'[b] = boards[b]
         /\ UNCHANGED <<users, board_relationships>>
         /\ (procs'[p].pc = "idle" /\ procs'[p].res = "ok") =>
              /\ ScopeWorkspaceIds(procs[p].scope) \subseteq workspaces'
              /\ BoardIds(procs[p].bds) \subseteq DOMAIN boards'
              /\ BoardIds(procs[p].bds) = ScopeBoardIds(procs[p].scope)
              /\ sync_metadata'[procs[p].syncId].status = "completed"
              /\ sync_metadata'[procs[p].syncId].workspace_id = procs[p].scope
              /\ sync_metadata'[procs[p].syncId].sync_type =
                   "specific_priority_workspace_sync"]_vars

\* C23's case: a scoped sync over a mirror that already held boards has
\* written its boards and is at the call that completes its Sync Run.
C23_Witness ==
  \E p \in Procs :
    /\ procs[p].op = "scoped" /\ procs[p].pc = "completeSync"
    /\ procs[p].call > 1 /\ Len(procs[p].bds) > 0
    /\ users # {}

\* C24: in every reachable state every stored board whose workspace
\* reference is present refers to a stored workspace.
C24_BoardWorkspaceStored ==
  \A b \in DOMAIN boards :
    boards[b].workspace_id # NULL => boards[b].workspace_id \in workspaces

\* C24's case: an incrementalSync, which saves no workspace itself, has
\* stored a board.
C24_Witness ==
  \E p \in Procs :
    /\ procs[p].op = "incr" /\ procs[p].n > 0
    /\ \E b \in DOMAIN boards : boards[b].workspace_id # NULL

\* The response carries a non-empty errors list.
HasErrors(response) == response.errors # {} /\ ValueOf(response.errors) # << >>

\* C25 as stated: query raises when the HTTP response is not OK and when the
\* body carries a non-empty errors list, and returns the data only otherwise;
\* testConnection returns a boolean, false whenever the probe query fails and
\* true whenever it succeeds.
C25_ProbeFollowsQuery ==
  /\ returned.op = "query" =>
       /\ (given.fetch = "resolved" /\ ~given.ok) => returned.result.raised
       /\ (given.fetch = "resolved" /\ given.ok /\ given.json = "valid" /\ HasErrors(given))
            => returned.result.raised
       /\ ~returned.result.raised =>
            /\ given.fetch = "resolved" /\ given.ok /\ ~HasErrors(given)
            /\ returned.result.data = given.data
  /\ returned.op = "testConnection" =>
       /\ returned.result \in BOOLEAN
       /\ returned.result = ~query(given).raised

\* C25, amended: testConnection returns true exactly when the probe query
\* succeeds and its data holds a me object; it returns false when the query
\* fails and when it returns data without one.
C25_ProbeNeedsMe ==
  /\ returned.op = "query" =>
       /\ (given.fetch = "resolved" /\ ~given.ok) => returned.result.raised
       /\ (given.fetch = "resolved" /\ given.ok /\ given.json = "valid" /\ HasErrors(given))
            => returned.result.raised
       /\ ~returned.result.raised =>
            /\ given.fetch = "resolved" /\ given.ok /\ ~HasErrors(given)
            /\ returned.result.data = given.data
  /\ returned.op = "testConnection" =>
       /\ returned.result \in BOOLEAN
       /\ returned.result = (~query(given).raised /\ given.data = "me")

\* C25's case: the probe was answered 200 OK with an errors list, and
\* testConnection returned false.
C25_Witness ==
  /\ returned.op = "testConnection" /\ returned.result = FALSE
  /\ given.fetch = "resolved" /\ given.ok /\ given.json = "valid" /\ HasErrors(given)

\* C26 as stated: discoverOrganization returns every workspace the remote
\* lists, whatever its name, every board the remote returns for those
\* workspaces, every user, an empty relationship list, and healthMetrics equal
\* to the counts and the item sum of the returned workspaces and boards.  It
\* is stated for the calls during which the remote stayed as it was.
C26_CompleteStructure ==
  (returned.op = "discoverOrganization" /\ ~returned.disturbed) =>
    /\ ~returned.result.raised
    /\ returned.result.workspaces = given.workspaces
    /\ returned.result.boards =
         Flatten([x \in DOMAIN given.workspaces |->
                    BoardsInWorkspace(given, given.workspaces[x].id)])
    /\ returned.result.users = given.users
    /\ returned.result.relationships = << >>
    /\ returned.result.healthMetrics.totalWorkspaces = Len(returned.result.workspaces)
    /\ returned.result.healthMetrics.totalBoards = Len(returned.result.boards)
    /\ returned.result.healthMetrics.activeBoards =
         Cardinality({x \in DOMAIN returned.result.boards :
                        returned.result.boards[x].state = "active"})
    /\ returned.result.healthMetrics.totalItems = SumItems(returned.result.boards)

\* Caller p is inside fullSync.
InFullSync(p) == procs[p].op = "full" /\ procs[p].pc # "idle"

\* The board of the current pass of the board loop is stored as this pass
\* saved it.
CurrentBoardSaved(r) ==
  /\ r.bds[r.i].id \in DOMAIN boards
  /\ boards[r.bds[r.i].id].last_synced <= now
  /\ boards[r.bds[r.i].id].state = r.bds[r.i].state

\* C27: within one fullSync a board is written only once all fetched
\* workspaces are stored, one board per step and in the order fetched; the
\* columns written are those of the board just saved; users are written only
\* after the last board; discovery runs only with the users stored; and the
\* Sync Run is completed only after discovery has gone through every board.
C27_FullSyncWriteOrder ==
  [][\A p \in Procs :
       InFullSync(p) =>
         LET r == procs[p] IN
         /\ workspaces' # workspaces =>
              r.pc = "saveWorkspaces" /\ BoardsWritten = {} /\ ~r.wrote
         /\ BoardsWritten # {} =>
              /\ r.pc = "saveBoards"
              /\ BoardIds(r.wss) \subseteq workspaces
              /\ BoardsWritten = {r.bds[r.i].id}
              /\ \A x \in 1..(r.i - 1) : r.bds[x].id \in DOMAIN boards
              /\ r.j = 0
         /\ ColumnBoardsWritten # {} =>
              /\ r.pc \in {"deleteColumns", "insertColumns"}
              /\ ColumnBoardsWritten = {r.bds[r.i].id}
              /\ CurrentBoardSaved(r)
         /\ r.pc = "saveUsers" =>
              /\ r.i = Len(r.bds) /\ r.j = 0
              /\ BoardIds(r.bds) \subseteq DOMAIN boards
         /\ board_relationships' # board_relationships =>
              /\ r.pc = "saveBoardRelationship"
              /\ Range(getUsers) \subseteq users
              /\ BoardIds(r.bds) \subseteq DOMAIN boards
         /\ (/\ r.syncId > 0
             /\ sync_metadata[r.syncId].status # "completed"
             /\ sync_metadata'[r.syncId].status = "completed") =>
              /\ r.pc = "completeSync"
              /\ r.j = Len(r.bds)
              /\ Range(getUsers) \subseteq users]_vars

\* C27's case: a full sync has written workspaces, boards, columns, users
\* and relationships and completed its Sync Run.
C27_Witness ==
  \E p \in Procs :
    /\ procs[p].op = "full" /\ procs[p].pc = "getOrganizationalStructure"
    /\ procs[p].found > 0 /\ columns # << >>
    /\ sync_metadata[procs[p].syncId].status = "completed"

\* C28: no step of any sync, successful or failed, and no clearCache removes
\* a stored workspace or board: the stored ids only grow, and a mirror that
\* getCacheStatus reports healthy is reported healthy after the step as well,
\* whenever the store can be read.
C28_MirrorOnlyGrows ==
  [][/\ workspaces \subseteq workspaces'
     /\ DOMAIN boards \subseteq DOMAIN boards'
     /\ getCacheStatus(StoredStructure(workspaces, boards, now), now).isHealthy
          => getCacheStatus(StoredStructure(workspaces', boards', now'), now').isHealthy]_vars

\* C28's case: the mirror is healthy after a sync that failed following a
\* sync that completed.
C28_Witness ==
  /\ getCacheStatus(StoredStructure(workspaces, boards, now), now).isHealthy
  /\ \E x, y \in DOMAIN sync_metadata :
       /\ x < y
       /\ sync_metadata[x].status = "completed"
       /\ sync_metadata[y].status = "failed"

\* Caller p is inside a fullSync or an incrementalSync that passed the guard.
PassedGuard(p) == InFullSync(p) \/ InIncrementalSync(p)

\* In this step caller p invokes fullSync or incrementalSync, directly or
\* through smartSync, refreshIfNeeded or quickSync.
InvokesFlaggedSync(p) ==
  /\ procs'[p].op \in {"full", "incr"}
  /\ \/ procs[p].pc = "idle" /\ procs'[p].call # procs[p].call
     \/ procs[p].pc = "getCacheStatus"

\* C29: of overlapping fullSync and incrementalSync calls exactly one passes
\* the already-syncing guard: the flag is true for as long as a call that
\* passed is running, no two such calls run at once, and a call invoked in
\* the meantime is rejected in the step that invokes it, while a call
\* invoked with the flag false passes and sets it in that same step.
C29_GuardTestAndSetAtomic ==
  [][/\ Cardinality({p \in Procs : PassedGuard(p)'}) <= 1
     /\ \A p \in Procs : PassedGuard(p)' => issyncing'
     /\ \A p \in Procs :
          InvokesFlaggedSync(p) =>
            /\ (\E q \in Procs \ {p} : PassedGuard(q)) =>
                 /\ procs'[p].pc = "idle" /\ procs'[p].res = "error"
                 /\ procs'[p].error = "Sync already in progress"
            /\ ~issyncing => procs'[p].pc = "startSync" /\ issyncing']_vars

\* C29's case: a fullSync or incrementalSync is running and an overlapping
\* fullSync or incrementalSync of the other caller was rejected.
C29_Witness ==
  \E p, q \in Procs :
    /\ p # q /\ PassedGuard(p) /\ procs[p].pc # "startSync"
    /\ procs[q].pc = "idle" /\ procs[q].op \in {"full", "incr"}
    /\ procs[q].res = "error" /\ procs[q].error = "Sync already in progress"
    /\ procs[q].call > procs[p].call

\* C30 as stated: the Organizational Structure projection is internally
\* consistent for every store content: healthMetrics.totalWorkspaces and
\* totalBoards equal the numbers of workspaces and boards of the same
\* projection (boards without a workspace included) and totalItems equals
\* the sum of the item counts of those boards, whatever the number of users.
C30_ProjectionConsistent ==
  returned.op = "getOrganizationalStructure" =>
    LET structure == returned.result
    IN  /\ structure.healthMetrics.totalWorkspaces = Cardinality(structure.workspaces)
        /\ structure.healthMetrics.totalBoards = Len(structure.boards)
        /\ structure.healthMetrics.totalItems = SumItems(structure.boards)

====
